---------------------------- MODULE Spec2Model ----------------------------
(***************************************************************************)
(* Hot-key mitigation cascade of rate-limit/: HotKeyDetector (access       *)
(* counter + hot-key registry), RateLimiter (token buckets), LocalCache    *)
(* (fallback cache), RedisClient (backing store) and the api.Server        *)
(* handlers that compose them.                                             *)
(*                                                                         *)
(* Time is a global integer clock `now`; the program's durations are       *)
(* scaled to a few ticks, keeping their order (Window < HotKeyExpiration   *)
(* = CacheTTL < StoreTTL).  A handler runs to completion in one step at one clock     *)
(* value.                                                                  *)
(***************************************************************************)
EXTENDS Integers, Sequences, FiniteSets, TLC

\* ------------------------------------------------------------------ bounds
MaxTime == 5
MaxCount == 5
\* requests received in a run of interleaved handlers
MaxRequests == 5

Keys == {"a", "b"}
\* the keys that operations are called on; the other keys of Keys are
\* bystanders, whose entries no operation may touch
RequestKeys == {"a"}
Values == {"v1", "v2"}

\* ------------------------------------------------- program configuration
\* DefaultHotKeyConfig (scaled: 100 accesses, 10 s, 5 min)
Threshold == 3
Window == 2
HotKeyExpiration == 3
\* NewServer: cache.NewLocalCache(5*time.Minute, ...), localCache.Set(.., 5*time.Minute)
CacheTTL == 3
\* handleSetKey: the expiration given to the store with every value (scaled: 1 hour)
StoreTTL == 4
\* DefaultRateLimiterConfig (scaled: 10 tokens/s, burst 20).  Token counts are
\* kept in units of 1/TokenScale token; RatePerTick units are added per tick,
\* so 1/refillRate seconds is TokenScale \div RatePerTick ticks.
TokenScale == 2
RatePerTick == 1
BurstSize == 2

\* net/http status codes used by the handlers
StatusOK == 200
StatusBadRequest == 400
StatusNotFound == 404
StatusTooManyRequests == 429
StatusInternalServerError == 500

VARIABLES
  now,          \* wall clock, in ticks
  counterCache, \* HotKeyDetector.localCache : key -> item holding the count string
  hotKeys,      \* HotKeyDetector.hotKeys    : key -> item holding "true"
  localCache,   \* Server.localCache         : key -> item holding the value
  limiters,     \* RateLimiter.limiters      : key -> token bucket
  redis,        \* backing store             : key -> item holding the value
  resp,         \* the last request's response and the component calls it made
  hist,         \* history variables of the detector and limiter (not program state)
  counterLock,  \* HotKeyDetector.counterLock : who holds the RWMutex
  limiterMutex, \* RateLimiter.limiterMutex   : who holds the RWMutex
  requests,     \* the requests in flight: where each is in its handler, its locals
  counter,      \* RoundRobinBalancer.counter (read-write-splitting)
  status,       \* RoundRobinBalancer.status  : replica index -> marked up
  route,        \* the proxy's last call: its inputs and where the command ran
  mlLocal,      \* MultiLevelCache.local : key -> item (multi-level-cache)
  mlRedis,      \* MultiLevelCache.redis : key -> item in the shared Redis
  mlResp,       \* the multi-level cache's last call and what it returned
  orphans,      \* rate.Limiter objects a reset dropped from RateLimiter.limiters
                \* while a caller of Allow still held them: key -> sequence
  health,       \* the replicas themselves: answering, refusing or hanging
  mlCalls       \* MultiLevelCache calls in flight: where each is, its locals

conc == <<counterLock, limiterMutex, requests>>
\* the state of the repository's other programs, and the limiter objects
\* that are no longer in the server's map
others == <<counter, status, route, mlLocal, mlRedis, mlResp, orphans, health, mlCalls>>
\* the state of the rate-limit server
server == <<now, counterCache, hotKeys, localCache, limiters, redis, resp, hist,
            counterLock, limiterMutex, requests>>
vars == <<now, counterCache, hotKeys, localCache, limiters, redis, resp, hist,
          counterLock, limiterMutex, requests, counter, status, route,
          mlLocal, mlRedis, mlResp, orphans, health, mlCalls>>

\* ---------------------------------------------------------- LocalCache
\* An item of go-cache: the stored string and its absolute expiry.
NoItem(empty) == [present |-> FALSE, val |-> empty, exp |-> 0]

\* an item that is gone already at its deadline
ExpiredAtDeadline(item, t) == t >= item.exp

\* go-cache reports an item expired when time.Now() is after its expiry.
Expired(item, t) == t > item.exp

\* a Get that forgets the expiry check
LocalCacheGetNoExpiry(c, k, empty, t) ==
  IF c[k].present
    THEN [val |-> c[k].val, found |-> TRUE]
    ELSE [val |-> empty, found |-> FALSE]

\* LocalCache.Get: (value, found); an expired item is not found.
LocalCacheGet(c, k, empty, t) ==
  IF c[k].present /\ ~Expired(c[k], t)
    THEN [val |-> c[k].val, found |-> TRUE]
    ELSE [val |-> empty, found |-> FALSE]

\* LocalCache.Set: overwrite the item, expiry = now + duration.
LocalCacheSet(c, k, v, d, t) ==
  [c EXCEPT ![k] = [present |-> TRUE, val |-> v, exp |-> t + d]]

\* LocalCache.Delete
LocalCacheDelete(c, k, empty) == [c EXCEPT ![k] = NoItem(empty)]

\* ------------------------------------------- time.Duration <-> string
\* Strings that the detector formats and parses are sequences of characters.
Digit == <<"0", "1", "2", "3", "4", "5", "6", "7", "8", "9">>
\* stands for the micro sign U+00B5 that Duration.String prints
Micro == "u"

RECURSIVE FormatInt(_)
FormatInt(n) ==
  IF n < 10 THEN <<Digit[n + 1]>>
  ELSE FormatInt(n \div 10) \o <<Digit[(n % 10) + 1]>>

RECURSIVE Pow10(_)
Pow10(p) == IF p = 0 THEN 1 ELSE 10 * Pow10(p - 1)

\* fmtFrac: the fraction v / 10^prec, trailing zeros dropped, no point if zero
RECURSIVE FmtFrac(_, _)
FmtFrac(v, prec) ==
  IF v = 0 THEN <<>>
  ELSE IF v % 10 = 0 THEN FmtFrac(v \div 10, prec - 1)
  ELSE LET digits == FormatInt(v)
           pad == [i \in 1..(prec - Len(digits)) |-> "0"]
       IN <<".">> \o pad \o digits

\* the count printed as a bare number, which ParseDuration rejects
DurationStringNoUnit(n) == FormatInt(n)

\* time.Duration(n).String() for 0 <= n < 1 s
DurationString(n) ==
  IF n = 0 THEN <<"0", "s">>
  ELSE IF n < 1000 THEN FormatInt(n) \o <<"n", "s">>
  ELSE IF n < 1000000
    THEN FormatInt(n \div 1000) \o FmtFrac(n % 1000, 3) \o <<Micro, "s">>
  ELSE FormatInt(n \div 1000000) \o FmtFrac(n % 1000000, 6) \o <<"m", "s">>

DigitValue(ch) == (CHOOSE i \in 1..10 : Digit[i] = ch) - 1
IsDigit(ch) == \E i \in 1..10 : Digit[i] = ch

\* length of the longest prefix of s[from..] made of digits
RECURSIVE DigitRun(_, _)
DigitRun(s, from) ==
  IF from > Len(s) \/ ~IsDigit(s[from]) THEN 0 ELSE 1 + DigitRun(s, from + 1)

RECURSIVE ParseInt(_, _, _)
ParseInt(s, from, len) ==
  IF len = 0 THEN 0
  ELSE 10 * ParseInt(s, from, len - 1) + DigitValue(s[from + len - 1])

UnitOf(u) ==
  IF u = <<"n", "s">> THEN 1
  ELSE IF u = <<Micro, "s">> THEN 1000
  ELSE IF u = <<"m", "s">> THEN 1000000
  ELSE IF u = <<"s">> THEN 1000000000
  ELSE 0

\* time.ParseDuration for one "<int>[.<frac>]<unit>" term with a fraction no
\* finer than the unit, as Duration.String prints it; 0 stands for the zero
\* Duration returned with an error (the caller drops the error).
ParseDuration(s) ==
  LET il == DigitRun(s, 1)
      hasDot == il + 1 <= Len(s) /\ s[il + 1] = "."
      fl == IF hasDot THEN DigitRun(s, il + 2) ELSE 0
      ustart == il + (IF hasDot THEN 1 ELSE 0) + fl + 1
      unit == UnitOf(SubSeq(s, ustart, Len(s)))
      ip == ParseInt(s, 1, il)
      fp == ParseInt(s, il + 2, fl)
  IN IF s = <<"0">> THEN 0
     ELSE IF (il = 0 /\ fl = 0) \/ unit = 0 THEN 0
     ELSE IF Pow10(fl) > unit THEN ip * unit
     ELSE ip * unit + fp * (unit \div Pow10(fl))

\* ------------------------------------------------------ HotKeyDetector
NoCount == NoItem(<<>>)
NoFlag == NoItem("")

\* a threshold test that fires one access early
ReachedThresholdEarly(count) == count >= Threshold - 1

\* a threshold that must be exceeded
ReachedThresholdStrict(count) == count > Threshold

\* line 182: the threshold test on the post-increment count
ReachedThreshold(count) == count >= Threshold

\* a RecordAccess that sets the flag anew for a key that is hot
RecordAccessRearms(cc, hk, k, t) ==
  IF LocalCacheGet(hk, k, "", t).found
    THEN [hot |-> TRUE, counted |-> FALSE, marked |-> FALSE,
          counterCache |-> cc,
          hotKeys |-> LocalCacheSet(hk, k, "true", HotKeyExpiration, t)]
    ELSE
      LET got == LocalCacheGet(cc, k, <<>>, t)
          count == IF got.found THEN ParseDuration(got.val) + 1 ELSE 1
          cc2 == LocalCacheSet(cc, k, DurationString(count), Window, t)
      IN IF count >= Threshold
           THEN [hot |-> TRUE, counted |-> TRUE, marked |-> TRUE,
                 counterCache |-> cc2,
                 hotKeys |-> LocalCacheSet(hk, k, "true", HotKeyExpiration, t)]
           ELSE [hot |-> FALSE, counted |-> TRUE, marked |-> FALSE,
                 counterCache |-> cc2, hotKeys |-> hk]

\* a RecordAccess that goes on counting the accesses to a key that is hot
RecordAccessCountsHot(cc, hk, k, t) ==
  LET got == LocalCacheGet(cc, k, <<>>, t)
      count == IF got.found THEN ParseDuration(got.val) + 1 ELSE 1
      cc2 == LocalCacheSet(cc, k, DurationString(count), Window, t)
  IN IF LocalCacheGet(hk, k, "", t).found
       THEN [hot |-> TRUE, counted |-> TRUE, marked |-> FALSE,
             counterCache |-> cc2, hotKeys |-> hk]
     ELSE IF count >= Threshold
       THEN [hot |-> TRUE, counted |-> TRUE, marked |-> TRUE,
             counterCache |-> cc2,
             hotKeys |-> LocalCacheSet(hk, k, "true", HotKeyExpiration, t)]
     ELSE [hot |-> FALSE, counted |-> TRUE, marked |-> FALSE,
           counterCache |-> cc2, hotKeys |-> hk]

\* HotKeyDetector.RecordAccess on detector state (cc, hk) at time t:
\* the answer and the detector's caches afterwards.
RecordAccess(cc, hk, k, t) ==
  IF LocalCacheGet(hk, k, "", t).found
    THEN [hot |-> TRUE, counted |-> FALSE, marked |-> FALSE,
          counterCache |-> cc, hotKeys |-> hk]
    ELSE
      LET got == LocalCacheGet(cc, k, <<>>, t)
          count == IF got.found THEN ParseDuration(got.val) + 1 ELSE 1
          cc2 == LocalCacheSet(cc, k, DurationString(count), Window, t)
      IN IF ReachedThreshold(count)
           THEN [hot |-> TRUE, counted |-> TRUE, marked |-> TRUE,
                 counterCache |-> cc2,
                 hotKeys |-> LocalCacheSet(hk, k, "true", HotKeyExpiration, t)]
           ELSE [hot |-> FALSE, counted |-> TRUE, marked |-> FALSE,
                 counterCache |-> cc2, hotKeys |-> hk]

\* HotKeyDetector.IsHotKey
IsHotKey(hk, k, t) == LocalCacheGet(hk, k, "", t).found

\* HotKeyDetector.GetAccessCount
GetAccessCount(cc, k, t) ==
  LET got == LocalCacheGet(cc, k, <<>>, t)
  IN IF got.found THEN ParseDuration(got.val) ELSE 0

\* HotKeyDetector.GetHotKeys: the stub returns an empty slice
GetHotKeys(hk) == <<>>

\* a ClearHotKey that leaves the flag in place
ClearHotKeyNoop(hk, k) == hk

\* HotKeyDetector.ClearHotKey
ClearHotKey(hk, k) == LocalCacheDelete(hk, k, "")

\* --------------------------------------------------------- RateLimiter
\* A rate.Limiter: tokens in 1/TokenScale units, refill `rate` units per tick.
NoLimiter == [present |-> FALSE, tokens |-> 0, last |-> 0, rate |-> 0, burst |-> 0]

\* a bucket that starts empty
NewLimiterEmpty(rate, burst, t) ==
  [present |-> TRUE, tokens |-> 0, last |-> t, rate |-> rate, burst |-> burst]

\* rate.NewLimiter: a bucket that answers its first Allow as a full one
NewLimiter(rate, burst, t) ==
  [present |-> TRUE, tokens |-> burst * TokenScale, last |-> t,
   rate |-> rate, burst |-> burst]

Min(x, y) == IF x <= y THEN x ELSE y

\* a bucket that never refills
AdvanceNoRefill(b, t) == b.tokens

\* a refill that is not capped
AdvanceNoCap(b, t) == b.tokens + (t - b.last) * b.rate

\* tokens the bucket holds at time t: refill since `last`, capped at burst
Advance(b, t) == Min(b.burst * TokenScale, b.tokens + (t - b.last) * b.rate)

\* a getLimiter that does not look again once it holds the write lock
getLimiterNoRecheck(lims, k, t) ==
  [lims EXCEPT ![k] = NewLimiter(RatePerTick, BurstSize, t)]

\* RateLimiter.getLimiter: the key's bucket, created at the default rate if absent
getLimiter(lims, k, t) ==
  IF lims[k].present THEN lims
  ELSE [lims EXCEPT ![k] = NewLimiter(RatePerTick, BurstSize, t)]

\* RateLimiter.Allow: refill, then take one token if there is one; a denied
\* call leaves the bucket as it was.
Allow(lims, k, t) ==
  LET l2 == getLimiter(lims, k, t)
      b == l2[k]
      tokens == Advance(b, t)
  IN IF tokens >= TokenScale
       THEN [ok |-> TRUE,
             limiters |-> [l2 EXCEPT ![k].tokens = tokens - TokenScale,
                                     ![k].last = t]]
       ELSE [ok |-> FALSE, limiters |-> l2]

\* a reset that spares the buckets set by SetRateForKey
cleanupKeepsCustom(lims) ==
  [k \in DOMAIN lims |->
     IF lims[k].present /\ (lims[k].rate # RatePerTick \/ lims[k].burst # BurstSize)
       THEN lims[k] ELSE NoLimiter]

\* RateLimiter.cleanup, one firing of its ticker: every bucket is dropped
cleanup(lims) == [k \in DOMAIN lims |-> NoLimiter]

\* a SetRateForKey that changes rate and burst and keeps the tokens
SetRateForKeyKeepsTokens(lims, k, rate, burst, t) ==
  IF lims[k].present
    THEN [lims EXCEPT ![k].rate = rate, ![k].burst = burst]
    ELSE [lims EXCEPT ![k] = NewLimiter(rate, burst, t)]

\* RateLimiter.SetRateForKey
SetRateForKey(lims, k, rate, burst, t) ==
  [lims EXCEPT ![k] = NewLimiter(rate, burst, t)]

\* --------------------------------------------------------- RedisClient
\* The store keeps a value until the expiration given with it has passed.
StoredValue(store, k, t) ==
  IF store[k].present /\ ~Expired(store[k], t) THEN store[k].val ELSE ""

\* a Get that swallows the store's error as if the key were absent
RedisGetSwallowsError(store, k, fail, t) ==
  [val |-> StoredValue(store, k, t), err |-> FALSE]

\* a Get that hands redis.Nil on as the text "nil"
RedisGetNilText(store, k, fail, t) ==
  IF fail THEN [val |-> "", err |-> TRUE]
  ELSE [val |-> IF StoredValue(store, k, t) = "" THEN "nil"
                ELSE StoredValue(store, k, t),
        err |-> FALSE]

\* RedisClient.Get: ("", err) on failure, ("", nil) when the key is absent
RedisGet(store, k, fail, t) ==
  IF fail THEN [val |-> "", err |-> TRUE]
  ELSE [val |-> StoredValue(store, k, t), err |-> FALSE]

\* RedisClient.Set with an expiration
RedisSet(store, k, v, d, fail, t) ==
  IF fail THEN [store |-> store, err |-> TRUE]
  ELSE [store |-> [store EXCEPT ![k] = [present |-> TRUE, val |-> v, exp |-> t + d]],
        err |-> FALSE]

\* -------------------------------------------------------------- Server
\* The components a handler works on.
Components ==
  [counterCache |-> counterCache, hotKeys |-> hotKeys, localCache |-> localCache,
   limiters |-> limiters, redis |-> redis]

NoResp ==
  [op |-> "none", key |-> "", isHot |-> FALSE, status |-> 0, source |-> "",
   value |-> "", error |-> "", calls |-> <<>>, stats |-> <<>>]

\* handleGetKey line 62: record the access, learn whether the key is hot
detectStage(k, st, t) ==
  LET ra == RecordAccess(st.counterCache, st.hotKeys, k, t)
  IN [st |-> [st EXCEPT !.counterCache = ra.counterCache, !.hotKeys = ra.hotKeys],
      r |-> [NoResp EXCEPT !.op = "get", !.key = k, !.isHot = ra.hot,
                           !.calls = <<"hotKeyDet.RecordAccess">>],
      done |-> FALSE]

\* every key is put behind the fallback cache and the limiter
shieldedAlways(isHot) == TRUE

\* line 65: the fallback cache and the limiter stand before the store for hot keys
shielded(isHot) == isHot

\* a cache hit that is looked up but not returned
cacheHitIgnored(c, cg) == [c EXCEPT !.r.calls = @ \o <<"localCache.Get">>]

\* lines 67-71: answered from the fallback cache
cacheHit(c, cg) ==
  [c EXCEPT !.done = TRUE,
            !.r.status = StatusOK, !.r.source = "local_cache", !.r.value = cg.val,
            !.r.calls = @ \o <<"localCache.Get">>]

\* line 74, Allow returned true: on to the store
admitted(c, al) ==
  [c EXCEPT !.st.limiters = al.limiters,
            !.r.calls = @ \o <<"localCache.Get", "rateLimiter.Allow">>]

\* a denial that is logged and then falls through to the store
throttledFallsThrough(c, al) == admitted(c, al)

\* lines 74-78: the limiter denied the store access
throttled(c, al) ==
  [c EXCEPT !.done = TRUE,
            !.st.limiters = al.limiters,
            !.r.status = StatusTooManyRequests,
            !.r.error = "Too many requests for this hot key",
            !.r.calls = @ \o <<"localCache.Get", "rateLimiter.Allow">>]

\* handleGetKey lines 65-79
shieldStage(k, c, t) ==
  IF ~shielded(c.r.isHot) THEN c
  ELSE
    LET cg == LocalCacheGet(c.st.localCache, k, "", t)
        al == Allow(c.st.limiters, k, t)
    IN IF cg.found THEN cacheHit(c, cg)
       ELSE IF ~al.ok THEN throttled(c, al)
       ELSE admitted(c, al)

\* every value read goes into the fallback cache
populatesAlways(isHot) == TRUE

\* a read that never writes the fallback cache
populatesNever(isHot) == FALSE

\* line 96: only a hot key's value goes into the fallback cache
populates(isHot) == isHot

\* handleGetKey lines 81-101: read the store, cache the value of a hot key
fetchStage(k, c, fail, t) ==
  IF c.done THEN c
  ELSE
    LET g == RedisGet(c.st.redis, k, fail, t)
        c1 == [c EXCEPT !.done = TRUE, !.r.calls = @ \o <<"redisClient.Get">>]
    IN IF g.err
         THEN [c1 EXCEPT !.r.status = StatusInternalServerError,
                         !.r.error = "Failed to get value from Redis"]
       ELSE IF g.val = ""
         THEN [c1 EXCEPT !.r.status = StatusNotFound, !.r.error = "Key not found"]
       ELSE IF populates(c.r.isHot)
         THEN [c1 EXCEPT !.st.localCache =
                            LocalCacheSet(@, k, g.val, CacheTTL, t),
                         !.r.status = StatusOK, !.r.source = "redis",
                         !.r.value = g.val,
                         !.r.calls = @ \o <<"localCache.Set">>]
       ELSE [c1 EXCEPT !.r.status = StatusOK, !.r.source = "redis",
                       !.r.value = g.val]

\* Server.handleGetKey
handleGetKey(k, st, fail, t) ==
  LET c == fetchStage(k, shieldStage(k, detectStage(k, st, t), t), fail, t)
  IN [st |-> c.st, r |-> c.r]

\* a write that refreshes the fallback entry of every key
refreshesAlways(hk, k, t) == TRUE

\* a write that never refreshes the fallback entry
refreshesNever(hk, k, t) == FALSE

\* line 146: a write refreshes the fallback entry of a key that is hot
refreshes(hk, k, t) == IsHotKey(hk, k, t)

\* a write that refreshes the fallback entry before it learns the store's answer
handleSetKeyCacheFirst(k, v, st, fail, t) ==
  LET r0 == [NoResp EXCEPT !.op = "set", !.key = k, !.value = v]
      w == RedisSet(st.redis, k, v, StoreTTL, fail, t)
      hot == refreshes(st.hotKeys, k, t)
      c == IF hot THEN LocalCacheSet(st.localCache, k, v, CacheTTL, t)
           ELSE st.localCache
  IN IF v = ""
       THEN [st |-> st,
             r |-> [r0 EXCEPT !.status = StatusBadRequest,
                              !.error = "Value cannot be empty"]]
     ELSE IF w.err
       THEN [st |-> [st EXCEPT !.localCache = c],
             r |-> [r0 EXCEPT !.status = StatusInternalServerError,
                              !.error = "Failed to set value in Redis",
                              !.calls = <<"redisClient.Set">>]]
     ELSE [st |-> [st EXCEPT !.redis = w.store, !.localCache = c],
           r |-> [r0 EXCEPT !.status = StatusOK, !.isHot = hot,
                            !.calls = IF hot
                              THEN <<"redisClient.Set", "hotKeyDet.IsHotKey",
                                     "localCache.Set">>
                              ELSE <<"redisClient.Set", "hotKeyDet.IsHotKey">>]]

\* a write that counts as an access to the key
handleSetKeyRecords(k, v, st, fail, t) ==
  LET r0 == [NoResp EXCEPT !.op = "set", !.key = k, !.value = v]
      w == RedisSet(st.redis, k, v, StoreTTL, fail, t)
      ra == RecordAccess(st.counterCache, st.hotKeys, k, t)
      c == IF ra.hot THEN LocalCacheSet(st.localCache, k, v, CacheTTL, t)
           ELSE st.localCache
  IN IF v = ""
       THEN [st |-> st,
             r |-> [r0 EXCEPT !.status = StatusBadRequest,
                              !.error = "Value cannot be empty"]]
     ELSE IF w.err
       THEN [st |-> st,
             r |-> [r0 EXCEPT !.status = StatusInternalServerError,
                              !.error = "Failed to set value in Redis",
                              !.calls = <<"redisClient.Set">>]]
     ELSE [st |-> [st EXCEPT !.redis = w.store, !.localCache = c,
                             !.counterCache = ra.counterCache,
                             !.hotKeys = ra.hotKeys],
           r |-> [r0 EXCEPT !.status = StatusOK, !.isHot = ra.hot,
                            !.calls = IF ra.hot
                              THEN <<"redisClient.Set", "hotKeyDet.IsHotKey",
                                     "localCache.Set">>
                              ELSE <<"redisClient.Set", "hotKeyDet.IsHotKey">>]]

\* Server.handleSetKey
handleSetKey(k, v, st, fail, t) ==
  LET r0 == [NoResp EXCEPT !.op = "set", !.key = k, !.value = v]
      w == RedisSet(st.redis, k, v, StoreTTL, fail, t)
  IN IF v = ""
       THEN [st |-> st,
             r |-> [r0 EXCEPT !.status = StatusBadRequest,
                              !.error = "Value cannot be empty"]]
     ELSE IF w.err
       THEN [st |-> st,
             r |-> [r0 EXCEPT !.status = StatusInternalServerError,
                              !.error = "Failed to set value in Redis",
                              !.calls = <<"redisClient.Set">>]]
     ELSE IF refreshes(st.hotKeys, k, t)
       THEN [st |-> [st EXCEPT !.redis = w.store,
                               !.localCache = LocalCacheSet(@, k, v, CacheTTL, t)],
             r |-> [r0 EXCEPT !.status = StatusOK, !.isHot = TRUE,
                              !.calls = <<"redisClient.Set", "hotKeyDet.IsHotKey",
                                          "localCache.Set">>]]
     ELSE [st |-> [st EXCEPT !.redis = w.store],
           r |-> [r0 EXCEPT !.status = StatusOK,
                            !.calls = <<"redisClient.Set", "hotKeyDet.IsHotKey">>]]

\* Server.handleKeyStats
handleKeyStats(k, st, t) ==
  LET inCache == LocalCacheGet(st.localCache, k, "", t).val
  IN [st |-> st,
      r |-> [NoResp EXCEPT
               !.op = "stats", !.key = k, !.status = StatusOK,
               !.isHot = IsHotKey(st.hotKeys, k, t),
               !.stats = <<GetAccessCount(st.counterCache, k, t),
                           IsHotKey(st.hotKeys, k, t), inCache # "">>,
               !.calls = <<"hotKeyDet.GetAccessCount", "hotKeyDet.IsHotKey",
                           "localCache.Get">>]]

\* Server.handleHotKeys
handleHotKeys(st) ==
  [st |-> st,
   r |-> [NoResp EXCEPT !.op = "hot-keys", !.status = StatusOK,
                        !.stats = GetHotKeys(st.hotKeys),
                        !.calls = <<"hotKeyDet.GetHotKeys">>]]

\* ---------------------------------------------------- history variables
\* Per key: the times of the latest accesses that lie within one window of the
\* latest one (at most Threshold of them), the length of the run of accesses
\* each within one window of the one before (capped at Threshold), what both
\* were when the hot flag was last set, and when that was (-1: never, or
\* cleared since), the accesses made since that flag ran out (capped at
\* Threshold), and, where reads are counted, the server's reads of the
\* key since it was last untracked.  For interleaved handlers: the requests
\* received and the counter writes made for the key.  For the limiter: the Allow calls made at the clock value
\* at which getLimiter created the bucket, the same for the clock value at
\* which SetRateForKey last replaced it (with the burst given and whether the
\* bucket replaced was out of tokens), and the last Allow's outcome; whether
\* a bulk reset has run with no Allow since, whether the key was denied at
\* the clock value of that reset and whether its bucket had a custom rate
\* (both kept until the second Allow after the reset).  For interleaved Allow
\* calls: the resets run, the buckets created and the calls granted per key,
\* and whether a caller found on its second look a bucket made meanwhile.
\* For interleaved reads: the store Gets made for the key while it was hot,
\* and whether a write of the key was in flight when the key was marked hot.
\* For the multi-level cache: a Delete of key "a" with no Set beside it has
\* returned nil and no Set has started since.
NoHist ==
  [recent |-> [k \in Keys |-> <<>>],
   lastAccess |-> [k \in Keys |-> -1],
   chain |-> [k \in Keys |-> 0],
   markedAt |-> [k \in Keys |-> -1],
   markDense |-> [k \in Keys |-> FALSE],
   markChained |-> [k \in Keys |-> FALSE],
   afterExpiry |-> [k \in Keys |-> 0],
   streak |-> [k \in Keys |-> [start |-> -1, last |-> -1, n |-> 0]],
   run |-> [k \in Keys |-> [at |-> -1, calls |-> 0, granted |-> 0]],
   setRun |-> [k \in Keys |-> [at |-> -1, calls |-> 0, granted |-> 0,
                               burst |-> 0, wasEmpty |-> FALSE]],
   reset |-> [k \in Keys |-> [pending |-> FALSE, denied |-> FALSE,
                              custom |-> FALSE]],
   started |-> 0,
   resets |-> 0,
   created |-> [k \in Keys |-> 0],
   allowed |-> [k \in Keys |-> 0],
   raced |-> FALSE,
   hotGets |-> [k \in Keys |-> 0],
   crossed |-> [k \in Keys |-> FALSE],
   deleted |-> FALSE,
   recorded |-> [k \in Keys |-> 0],
   lastAllow |-> [k \in Keys |->
                    [at |-> -1, ok |-> TRUE, rate |-> 0, waited |-> FALSE]]]

RECURSIVE DropOld(_, _)
DropOld(s, from) ==
  IF s = <<>> \/ Head(s) >= from THEN s ELSE DropOld(Tail(s), from)

LastN(s, n) == IF Len(s) <= n THEN s ELSE SubSeq(s, Len(s) - n + 1, Len(s))

\* hist after an access to k at time t that set the hot flag iff `marked`
HistAccess(h, k, t, marked) ==
  LET rec == LastN(DropOld(h.recent[k], t - Window) \o <<t>>, Threshold)
      ch == IF h.lastAccess[k] >= 0 /\ t - h.lastAccess[k] <= Window
              THEN Min(h.chain[k] + 1, Threshold) ELSE 1
      ae == IF ~marked /\ h.markedAt[k] >= 0
                       /\ t > h.markedAt[k] + HotKeyExpiration
              THEN Min(h.afterExpiry[k] + 1, Threshold) ELSE 0
      h1 == [h EXCEPT !.recent[k] = rec, !.lastAccess[k] = t, !.chain[k] = ch,
                      !.afterExpiry[k] = ae]
  IN IF marked
       THEN [h1 EXCEPT !.markedAt[k] = t,
                       !.markDense[k] = (Len(rec) >= Threshold),
                       !.markChained[k] = (ch >= Threshold)]
       ELSE h1

\* hist after a read of k at time t: the reads made since k was last
\* untracked (no live counter record and no live hot flag), counted up to
\* Threshold + 1, with the times of the first and the latest of them
HistRead(h, cc, hk, k, t) ==
  LET untracked == ~LocalCacheGet(cc, k, <<>>, t).found /\ ~IsHotKey(hk, k, t)
      s == h.streak[k]
  IN [h EXCEPT !.streak[k] =
        IF untracked THEN [start |-> t, last |-> t, n |-> 1]
        ELSE IF s.n = 0 THEN s
        ELSE [s EXCEPT !.last = t, !.n = Min(s.n + 1, Threshold + 1)]]

\* --------------------------------------- read-write-splitting: balancer
\* the replicas of DefaultConfig plus one, by index
\* the number of replicas in the configuration (cmd/main.go configures two; the
\* proxy and the balancer take any number)
SlaveCount == 3
Slaves == 0..(SlaveCount - 1)

\* the counter is a uint64: it wraps at 2^64.  Scaled to 16, which leaves the
\* same remainders as 2^64 modulo 2, 3 and 4.
CounterModulus == 16

\* Next's loop from its i-th round on: the first replica marked up among
\* (current + i) % slaveCount, ..., or -1 once slaveCount rounds are through.
\* current + uint64(i) is a uint64 sum.
RECURSIVE NextFrom(_, _, _, _)
NextFrom(current, st, slaveCount, i) ==
  IF i >= slaveCount THEN -1
  ELSE LET index == ((current + i) % CounterModulus) % slaveCount
       IN IF st[index] THEN index ELSE NextFrom(current, st, slaveCount, i + 1)

\* what Next returns when it finds the counter at c
NextIndex(c, st, slaveCount) == NextFrom(c, st, slaveCount, 0)

\* atomic.AddUint64(&b.counter, 1)
NextCounter(c) == (c + 1) % CounterModulus

MarkDown(st, index) ==
  IF index >= 0 /\ index < SlaveCount THEN [st EXCEPT ![index] = FALSE] ELSE st

MarkUp(st, index) ==
  IF index >= 0 /\ index < SlaveCount THEN [st EXCEPT ![index] = TRUE] ELSE st

\* ------------------------------------------ read-write-splitting: proxy
WriteCommands == {"set", "setex", "setnx", "del", "incr", "decr", "expire",
                  "lpush", "rpush", "sadd", "zadd", "hset"}
ReadCommands == {"get", "mget", "exists", "lrange", "lindex", "smembers",
                 "sismember", "zrange", "hget", "hgetall"}
commandType == [c \in WriteCommands \cup ReadCommands |-> c \in WriteCommands]

\* a classification that takes what the table does not know for a read
IsWriteCommandUnknownRead(cmd) ==
  IF cmd \notin DOMAIN commandType THEN FALSE ELSE commandType[cmd]

IsWriteCommand(cmd) ==
  IF cmd \notin DOMAIN commandType THEN TRUE ELSE commandType[cmd]

\* Where a command ran: on the master or on replica `index`; `tried` lists the
\* replicas it was executed on, in order; counter and status are the
\* balancer's afterwards.
Ran(target, index, tried, c, st) ==
  [target |-> target, index |-> index, tried |-> tried, counter |-> c, status |-> st]

processOnMaster(tried, c, st) == Ran("master", -1, tried, c, st)

\* a retry that leaves the failed replica marked up
processOnSlaveNoMarkDown(c, st, failing) ==
  LET first == NextIndex(c, st, SlaveCount)
      c1 == NextCounter(c)
      second == NextIndex(c1, st, SlaveCount)
      c2 == NextCounter(c1)
  IN IF first < 0 THEN processOnMaster(<<>>, c1, st)
     ELSE IF first \notin failing THEN Ran("slave", first, <<first>>, c1, st)
     ELSE IF second < 0 THEN processOnMaster(<<first>>, c2, st)
     ELSE IF second \notin failing
          THEN Ran("slave", second, <<first, second>>, c2, st)
     ELSE processOnMaster(<<first, second>>, c2, MarkDown(st, second))

\* `failing` is the set of replicas on which the command's Do returns an error.
processOnSlave(c, st, failing) ==
  LET first == NextIndex(c, st, SlaveCount)
      c1 == NextCounter(c)
      st1 == MarkDown(st, first)
      second == NextIndex(c1, st1, SlaveCount)
      c2 == NextCounter(c1)
  IN IF first < 0 THEN processOnMaster(<<>>, c1, st)
     ELSE IF first \notin failing THEN Ran("slave", first, <<first>>, c1, st)
     ELSE IF second < 0 THEN processOnMaster(<<first>>, c2, st1)
     ELSE IF second \notin failing
          THEN Ran("slave", second, <<first, second>>, c2, st1)
     ELSE processOnMaster(<<first, second>>, c2, MarkDown(st1, second))

Process(cmd, c, st, failing) ==
  IF IsWriteCommand(cmd) THEN processOnMaster(<<>>, c, st)
  ELSE processOnSlave(c, st, failing)

\* `alive` is the set of replicas that answer the ping.
HealthCheck(st, alive) ==
  [i \in Slaves |-> IF i \in alive THEN MarkUp(st, i)[i] ELSE MarkDown(st, i)[i]]

NoRoute == [op |-> "none", cmd |-> "", failing |-> {}, counter |-> 0,
            pre |-> [i \in Slaves |-> TRUE],
            target |-> "none", index |-> -1, tried |-> <<>>]

\* ---------------------------------------------------- multi-level-cache
\* default expirations of the two levels (5 minutes each), in ticks
LocalDefaultExpiration == 3
RedisDefaultExpiration == 3

\* a nil []byte; "" is the empty, non-nil one
NilValue == "<nil>"

MLResult(val, err) == [val |-> val, err |-> err]
MLLive(c, key, t) == c[key].present /\ ~Expired(c[key], t)

\* LocalCache.Get.  Only []byte values are ever stored (Set), so the type
\* assertion at 70-74 does not fail.
MLLocalGet(c, key, t) ==
  IF key = "" THEN MLResult(NilValue, "ErrInvalidKey")
  ELSE IF ~MLLive(c, key, t) THEN MLResult(NilValue, "ErrKeyNotFound")
  ELSE MLResult(c[key].val, "nil")

\* LocalCache.Set: the cache afterwards and the error
MLLocalSet(c, key, value, expiration, t) ==
  IF key = "" THEN [cache |-> c, err |-> "ErrInvalidKey"]
  ELSE IF value = NilValue THEN [cache |-> c, err |-> "ErrInvalidValue"]
  ELSE LET d == IF expiration <= 0 THEN LocalDefaultExpiration ELSE expiration
       IN [cache |-> [c EXCEPT ![key] = [present |-> TRUE, val |-> value, exp |-> t + d]],
           err |-> "nil"]

MLLocalDelete(c, key) ==
  IF key = "" THEN [cache |-> c, err |-> "ErrInvalidKey"]
  ELSE [cache |-> [c EXCEPT ![key] = NoItem("")], err |-> "nil"]

\* RedisCache.Get; `fail` says that the Redis command returns an error
MLRedisGet(c, key, t, fail) ==
  IF key = "" THEN MLResult(NilValue, "ErrInvalidKey")
  ELSE IF fail THEN MLResult(NilValue, "ErrCacheInternal")
  ELSE IF ~MLLive(c, key, t) THEN MLResult(NilValue, "ErrKeyNotFound")
  ELSE MLResult(c[key].val, "nil")

MLRedisSet(c, key, value, expiration, t, fail) ==
  IF key = "" THEN [cache |-> c, err |-> "ErrInvalidKey"]
  ELSE IF value = NilValue THEN [cache |-> c, err |-> "ErrInvalidValue"]
  ELSE IF fail THEN [cache |-> c, err |-> "ErrCacheInternal"]
  ELSE LET d == IF expiration <= 0 THEN RedisDefaultExpiration ELSE expiration
       IN [cache |-> [c EXCEPT ![key] = [present |-> TRUE, val |-> value, exp |-> t + d]],
           err |-> "nil"]

MLRedisDelete(c, key, fail) ==
  IF key = "" THEN [cache |-> c, err |-> "ErrInvalidKey"]
  ELSE IF fail THEN [cache |-> c, err |-> "ErrCacheInternal"]
  ELSE [cache |-> [c EXCEPT ![key] = NoItem("")], err |-> "nil"]

\* What a MultiLevelCache call returns and leaves behind; redisCalled says
\* whether it called m.redis.
MLOutcome(val, err, local, store, redisCalled) ==
  [val |-> val, err |-> err, local |-> local, redis |-> store,
   redisCalled |-> redisCalled]

\* a Get that does not write the Redis value back
MultiLevelGetNoWriteBack(local, store, key, t, fail) ==
  LET l == MLLocalGet(local, key, t)
      r == MLRedisGet(store, key, t, fail)
  IN IF l.err = "nil" THEN MLOutcome(l.val, "nil", local, store, FALSE)
     ELSE IF l.err # "ErrKeyNotFound" THEN MLOutcome(NilValue, l.err, local, store, FALSE)
     ELSE IF r.err = "nil" THEN MLOutcome(r.val, "nil", local, store, TRUE)
     ELSE MLOutcome(NilValue, r.err, local, store, TRUE)

\* MultiLevelCache.Get; the error of the write-back is dropped (58)
MultiLevelGet(local, store, key, t, fail) ==
  LET l == MLLocalGet(local, key, t)
      r == MLRedisGet(store, key, t, fail)
  IN IF l.err = "nil" THEN MLOutcome(l.val, "nil", local, store, FALSE)
     ELSE IF l.err # "ErrKeyNotFound" THEN MLOutcome(NilValue, l.err, local, store, FALSE)
     ELSE IF r.err = "nil"
          THEN MLOutcome(r.val, "nil", MLLocalSet(local, key, r.val, 0, t).cache,
                         store, TRUE)
     ELSE MLOutcome(NilValue, r.err, local, store, TRUE)

\* MultiLevelCache.Set: both levels are written, the first error is returned
MultiLevelSet(local, store, key, value, expiration, t, fail) ==
  LET r1 == MLLocalSet(local, key, value, expiration, t)
      r2 == MLRedisSet(store, key, value, expiration, t, fail)
  IN MLOutcome(NilValue, IF r1.err # "nil" THEN r1.err ELSE r2.err,
               r1.cache, r2.cache, TRUE)

\* MultiLevelCache.Delete: both levels are deleted, the first error is returned
MultiLevelDelete(local, store, key, fail) ==
  LET r1 == MLLocalDelete(local, key)
      r2 == MLRedisDelete(store, key, fail)
  IN MLOutcome(NilValue, IF r1.err # "nil" THEN r1.err ELSE r2.err,
               r1.cache, r2.cache, TRUE)

\* localErr is what the local level answered the call's key with beforehand;
\* wbExp is the expiry of the local entry since the last write-back of key
\* "a" (-1: none, or deleted since); covered: that entry was live at the call;
\* afterDelete: the call started after a Delete had returned nil, with no Set
\* started since.
NoMLResp == [op |-> "none", key |-> "", val |-> NilValue, err |-> "nil",
             redisCalled |-> FALSE, localErr |-> "nil", at |-> 0,
             wbExp |-> -1, covered |-> FALSE, afterDelete |-> FALSE]

\* the goroutines calling the MultiLevelCache
MLCallers == {1, 2}

\* a call not yet made.  val and err are the locals of Get (lines 43, 50),
\* err is err1 of Set and Delete (69, 86).  clean is not program state: for a
\* Delete, no Set has been in flight beside it; for a Get, it started after
\* such a Delete had returned nil and no Set has started since.
NoMLCall == [pc |-> "idle", op |-> "none", key |-> "", val |-> NilValue,
             err |-> "nil", clean |-> FALSE]

\* NewRoundRobinBalancer: counter 0, every replica up.  NewLocalCache: empty;
\* the shared Redis starts empty.  Every replica answers, no call is in flight.
OthersInit ==
  /\ counter = 0
  /\ status = [i \in Slaves |-> TRUE]
  /\ route = NoRoute
  /\ mlLocal = [k \in Keys |-> NoItem("")]
  /\ mlRedis = [k \in Keys |-> NoItem("")]
  /\ mlResp = NoMLResp
  /\ orphans = [k \in Keys |-> <<>>]
  /\ health = [i \in Slaves |-> "up"]
  /\ mlCalls = [p \in MLCallers |-> NoMLCall]

\* ------------------------------------------------ requests in flight
\* the goroutines serving requests
Procs == {1, 2}

\* a sync.RWMutex: the writer holding it (0: none) and the readers holding it
NoLock == [writer |-> 0, readers |-> {}]

\* a request not yet received: no handler running.  limiter is the bucket
\* getLimiter returned: 0 for the one in the map, i for orphans[key][i].
NoRequest ==
  [pc |-> "idle", op |-> "", key |-> "", value |-> "", isHot |-> FALSE,
   count |-> 0, limiter |-> 0]

\* no lock held, no request in flight
Quiescent ==
  /\ counterLock = NoLock
  /\ limiterMutex = NoLock
  /\ requests = [p \in Procs |-> NoRequest]

\* ------------------------------------------------------------- actions
\* The state a handler leaves behind.
Commit(out) ==
  /\ counterCache' = out.st.counterCache
  /\ hotKeys' = out.st.hotKeys
  /\ localCache' = out.st.localCache
  /\ limiters' = out.st.limiters
  /\ redis' = out.st.redis
  /\ resp' = out.r

GetKey(k) ==
  \E fail \in BOOLEAN :
    /\ Commit(handleGetKey(k, Components, fail, now))
    /\ UNCHANGED <<others, conc, now, hist>>

SetKey(k, v) ==
  \E fail \in BOOLEAN :
    /\ Commit(handleSetKey(k, v, Components, fail, now))
    /\ UNCHANGED <<others, conc, now, hist>>

KeyStats(k) ==
  /\ Commit(handleKeyStats(k, Components, now))
  /\ UNCHANGED <<others, conc, now, hist>>

HotKeys ==
  /\ Commit(handleHotKeys(Components))
  /\ UNCHANGED <<others, conc, now, hist>>

\* RateLimiter.cleanup's ticker fires
Cleanup ==
  /\ limiters' = cleanup(limiters)
  /\ hist' = [hist EXCEPT !.run = NoHist.run, !.setRun = NoHist.setRun]
  /\ UNCHANGED <<others, conc, now, counterCache, hotKeys, localCache, redis, resp>>

\* time passes
Tick ==
  /\ now < MaxTime
  /\ now' = now + 1
  /\ UNCHANGED <<others, conc, counterCache, hotKeys, localCache, limiters, redis, resp, hist>>

\* ------------------------------------------- detector on its own
\* the last call made on a component and what it returned
NoCall == [op |-> "none", key |-> "", result |-> FALSE, count |-> 0]

ComponentInit ==
  /\ now = 0
  /\ counterCache = [k \in Keys |-> NoCount]
  /\ hotKeys = [k \in Keys |-> NoFlag]
  /\ localCache = [k \in Keys |-> NoItem("")]
  /\ limiters = [k \in Keys |-> NoLimiter]
  /\ redis = [k \in Keys |-> NoItem("")]
  /\ resp = NoCall
  /\ hist = NoHist
  /\ Quiescent
  /\ OthersInit

CallRecordAccess(k) ==
  LET ra == RecordAccess(counterCache, hotKeys, k, now)
  IN /\ GetAccessCount(counterCache, k, now) < MaxCount
     /\ counterCache' = ra.counterCache
     /\ hotKeys' = ra.hotKeys
     /\ resp' = [op |-> "RecordAccess", key |-> k, result |-> ra.hot,
                 count |-> GetAccessCount(ra.counterCache, k, now)]
     /\ hist' = HistAccess(hist, k, now, ra.marked)
     /\ UNCHANGED <<others, conc, now, localCache, limiters, redis>>

CallIsHotKey(k) ==
  /\ resp' = [op |-> "IsHotKey", key |-> k,
              result |-> IsHotKey(hotKeys, k, now), count |-> 0]
  /\ UNCHANGED <<others, conc, now, counterCache, hotKeys, localCache, limiters, redis, hist>>

CallGetAccessCount(k) ==
  /\ resp' = [op |-> "GetAccessCount", key |-> k, result |-> FALSE,
              count |-> GetAccessCount(counterCache, k, now)]
  /\ UNCHANGED <<others, conc, now, counterCache, hotKeys, localCache, limiters, redis, hist>>

CallClearHotKey(k) ==
  /\ hotKeys' = ClearHotKey(hotKeys, k)
  /\ resp' = [op |-> "ClearHotKey", key |-> k, result |-> FALSE, count |-> 0]
  /\ hist' = [hist EXCEPT !.markedAt[k] = -1]
  /\ UNCHANGED <<others, conc, now, counterCache, localCache, limiters, redis>>

DetectorNext ==
  \/ \E k \in RequestKeys : CallRecordAccess(k)
  \/ \E k \in RequestKeys : CallIsHotKey(k)
  \/ \E k \in RequestKeys : CallGetAccessCount(k)
  \/ \E k \in RequestKeys : CallClearHotKey(k)
  \/ Tick

SpecDetector == ComponentInit /\ [][DetectorNext]_vars

\* -------------------------------------------- limiter on its own
Rates == {1, 2}
Bursts == {1, 3}

\* hist after Allow(k) at time t answered ok, on the limiter map lims
HistAllow(h, lims, k, t, ok) ==
  LET prev == h.lastAllow[k]
      run == h.run[k]
      g == IF ok THEN 1 ELSE 0
  IN [h EXCEPT
        !.run[k] =
          IF ~lims[k].present
            THEN [at |-> t, calls |-> 1, granted |-> g]
          ELSE IF run.at = t /\ run.calls <= BurstSize
            THEN [at |-> t, calls |-> run.calls + 1, granted |-> run.granted + g]
          ELSE NoHist.run[k],
        !.setRun[k] =
          IF h.setRun[k].at = t /\ h.setRun[k].calls <= h.setRun[k].burst
            THEN [h.setRun[k] EXCEPT !.calls = @ + 1, !.granted = @ + g]
          ELSE NoHist.setRun[k],
        !.reset[k] = IF h.reset[k].pending
                       THEN [h.reset[k] EXCEPT !.pending = FALSE]
                       ELSE NoHist.reset[k],
        !.lastAllow[k] =
          [at |-> t, ok |-> ok,
           rate |-> getLimiter(lims, k, t)[k].rate,
           waited |-> /\ prev.at >= 0
                      /\ ~prev.ok
                      /\ (t - prev.at) * prev.rate >= TokenScale]]

CallAllow(k) ==
  LET al == Allow(limiters, k, now)
  IN /\ limiters' = al.limiters
     /\ resp' = [op |-> "Allow", key |-> k, result |-> al.ok, count |-> 0]
     /\ hist' = HistAllow(hist, limiters, k, now, al.ok)
     /\ UNCHANGED <<others, conc, now, counterCache, hotKeys, localCache, redis>>

CallSetRateForKey(k, rate, burst) ==
  /\ limiters' = SetRateForKey(limiters, k, rate, burst, now)
  /\ resp' = [op |-> "SetRateForKey", key |-> k, result |-> FALSE, count |-> 0]
  /\ hist' = [hist EXCEPT
                !.run[k] = NoHist.run[k],
                !.reset[k] = NoHist.reset[k],
                !.setRun[k] =
                  [at |-> now, calls |-> 0, granted |-> 0, burst |-> burst,
                   wasEmpty |-> /\ limiters[k].present
                                /\ Advance(limiters[k], now) < TokenScale]]
  /\ UNCHANGED <<others, conc, now, counterCache, hotKeys, localCache, redis>>

LimiterNext ==
  \/ \E k \in RequestKeys : CallAllow(k)
  \/ \E k \in RequestKeys, rate \in Rates, burst \in Bursts :
       CallSetRateForKey(k, rate, burst)
  \/ Cleanup
  \/ Tick

SpecLimiter == ComponentInit /\ [][LimiterNext]_vars

\* the limiter with Allow called on both keys and custom rates set for one
SetRateNext ==
  \/ \E k \in Keys : CallAllow(k)
  \/ \E k \in RequestKeys, rate \in Rates, burst \in Bursts :
       CallSetRateForKey(k, rate, burst)
  \/ Tick

SpecSetRate == ComponentInit /\ [][SetRateNext]_vars

\* the limiter with its bulk reset, remembering what each reset dropped
CallCleanup ==
  /\ limiters' = cleanup(limiters)
  /\ resp' = [op |-> "cleanup", key |-> "", result |-> FALSE, count |-> 0]
  /\ hist' = [hist EXCEPT
                !.run = NoHist.run,
                !.setRun = NoHist.setRun,
                !.reset = [k \in Keys |->
                   [pending |-> TRUE,
                    denied |-> /\ hist.lastAllow[k].at = now
                               /\ ~hist.lastAllow[k].ok
                               /\ limiters[k].present,
                    custom |-> /\ limiters[k].present
                               /\ (limiters[k].rate # RatePerTick
                                     \/ limiters[k].burst # BurstSize)]]]
  /\ UNCHANGED <<others, conc, now, counterCache, hotKeys, localCache, redis>>

ResetNext ==
  \/ \E k \in RequestKeys : CallAllow(k)
  \/ \E k \in RequestKeys, rate \in Rates, burst \in Bursts :
       CallSetRateForKey(k, rate, burst)
  \/ CallCleanup
  \/ Tick

SpecReset == ComponentInit /\ [][ResetNext]_vars

\* -------------------------------------------------------------- server
Init ==
  /\ now = 0
  /\ counterCache = [k \in Keys |-> NoCount]
  /\ hotKeys = [k \in Keys |-> NoFlag]
  /\ localCache = [k \in Keys |-> NoItem("")]
  /\ limiters = [k \in Keys |-> NoLimiter]
  /\ redis = [k \in Keys |-> NoItem("")]
  /\ resp = NoResp
  /\ hist = NoHist
  /\ Quiescent
  /\ OthersInit

Next ==
  \/ \E k \in RequestKeys : GetKey(k)
  \/ \E k \in RequestKeys, v \in Values \cup {""} : SetKey(k, v)
  \/ \E k \in RequestKeys : KeyStats(k)
  \/ HotKeys
  \/ Cleanup
  \/ Tick

Spec == Init /\ [][Next]_vars

\* ------------------------------ the server with flags cleared by hand
ClearNext ==
  \/ \E k \in RequestKeys :
       GetAccessCount(counterCache, k, now) < MaxCount /\ GetKey(k)
  \/ \E k \in RequestKeys : SetKey(k, "v1")
  \/ \E k \in RequestKeys : CallClearHotKey(k)
  \/ Tick

SpecClear == Init /\ [][ClearNext]_vars

\* ------------------------------------------ handlers given an empty key
\* c.Param("key") of a context that carries no key
EmptyKey == ""
AnyKeys == Keys \cup {EmptyKey}

InitAnyKey ==
  /\ now = 0
  /\ counterCache = [k \in AnyKeys |-> NoCount]
  /\ hotKeys = [k \in AnyKeys |-> NoFlag]
  /\ localCache = [k \in AnyKeys |-> NoItem("")]
  /\ limiters = [k \in AnyKeys |-> NoLimiter]
  /\ redis = [k \in AnyKeys |-> NoItem("")]
  /\ resp = NoResp
  /\ hist = NoHist
  /\ Quiescent
  /\ OthersInit

NextAnyKey ==
  \/ GetKey(EmptyKey)
  \/ \E v \in Values \cup {""} : SetKey(EmptyKey, v)
  \/ Tick

SpecAnyKey == InitAnyKey /\ [][NextAnyKey]_vars

\* ------------------------------------ the server's reads, counted, and stats
\* GET /get/:key, with the read entered in hist
CountedGetKey(k) ==
  \E fail \in BOOLEAN :
    /\ Commit(handleGetKey(k, Components, fail, now))
    /\ hist' = HistRead(hist, counterCache, hotKeys, k, now)
    /\ UNCHANGED <<others, conc, now>>

StatsNext ==
  \/ \E k \in RequestKeys : CountedGetKey(k)
  \/ \E k \in RequestKeys : KeyStats(k)
  \/ Tick

SpecStats == Init /\ [][StatsNext]_vars

\* ------------------------------------------- handlers, statement by statement
\* Requests served by concurrent goroutines.  A request's pc names the
\* statement it executes next; a request at a Lock or RLock whose mutex is
\* not available is blocked there.  All of it happens at one clock value.
\* (A blocked Lock does not hold back later RLocks here.)

\* a Lock that excludes nobody
CanLockAlways(m) == TRUE

\* sync.RWMutex.Lock can return
CanLock(m) == m.writer = 0 /\ m.readers = {}

\* sync.RWMutex.RLock can return
CanRLock(m) == m.writer = 0

Lock(m, p) == [m EXCEPT !.writer = p]

\* a return path that skips the Unlock
UnlockSkipped(m, p) == m

Unlock(m, p) == [m EXCEPT !.writer = 0]

RLock(m, p) == [m EXCEPT !.readers = @ \cup {p}]

RUnlock(m, p) == [m EXCEPT !.readers = @ \ {p}]

\* request p moves on to statement pc
Goto(p, pc) == requests' = [requests EXCEPT ![p].pc = pc]

\* request p is answered and its handler returns
Respond(p, code, source, value) ==
  /\ requests' = [requests EXCEPT ![p] = NoRequest]
  /\ resp' = [NoResp EXCEPT !.op = requests[p].op, !.key = requests[p].key,
                            !.isHot = requests[p].isHot, !.status = code,
                            !.source = source, !.value = value]

At(p, pc) == requests[p].pc = pc

\* gin hands a GET /get/:key or POST /set/:key to its handler
Receive(p) ==
  /\ At(p, "idle")
  /\ hist.started < MaxRequests
  /\ hist' = [hist EXCEPT !.started = @ + 1]
  /\ \E k \in Keys :
       \/ requests' = [requests EXCEPT ![p] =
            [NoRequest EXCEPT !.pc = "hotKeys.Get", !.op = "get", !.key = k]]
       \/ \E v \in Values :
            requests' = [requests EXCEPT ![p] =
              [NoRequest EXCEPT !.pc = "redisClient.Set", !.op = "set",
                                !.key = k, !.value = v]]
  /\ UNCHANGED <<others, now, counterCache, hotKeys, localCache, limiters, redis, resp,
                 counterLock, limiterMutex>>

\* RecordAccess line 164: a key already hot is not counted
RAHotCheck(p) ==
  /\ At(p, "hotKeys.Get")
  /\ IF IsHotKey(hotKeys, requests[p].key, now)
       THEN requests' = [requests EXCEPT ![p].isHot = TRUE,
                                         ![p].pc = "localCache.Get"]
       ELSE Goto(p, "counterLock.Lock")
  /\ UNCHANGED <<others, now, counterCache, hotKeys, localCache, limiters, redis, resp,
                 hist, counterLock, limiterMutex>>

\* RecordAccess line 168
RALock(p) ==
  /\ At(p, "counterLock.Lock")
  /\ CanLock(counterLock)
  /\ counterLock' = Lock(counterLock, p)
  /\ Goto(p, "counter.Get")
  /\ UNCHANGED <<others, now, counterCache, hotKeys, localCache, limiters, redis, resp,
                 hist, limiterMutex>>

\* RecordAccess lines 171-175
RARead(p) ==
  /\ At(p, "counter.Get")
  /\ LET got == LocalCacheGet(counterCache, requests[p].key, <<>>, now)
     IN requests' = [requests EXCEPT
          ![p].count = IF got.found THEN ParseDuration(got.val) + 1 ELSE 1,
          ![p].pc = "counter.Set"]
  /\ UNCHANGED <<others, now, counterCache, hotKeys, localCache, limiters, redis, resp,
                 hist, counterLock, limiterMutex>>

\* RecordAccess line 178
RAWrite(p) ==
  /\ At(p, "counter.Set")
  /\ counterCache' = LocalCacheSet(counterCache, requests[p].key,
                                   DurationString(requests[p].count), Window, now)
  /\ Goto(p, "threshold")
  /\ hist' = [hist EXCEPT !.recorded[requests[p].key] = @ + 1]
  /\ UNCHANGED <<others, now, hotKeys, localCache, limiters, redis, resp,
                 counterLock, limiterMutex>>

\* RecordAccess lines 181-185
RAMark(p) ==
  /\ At(p, "threshold")
  /\ IF ReachedThreshold(requests[p].count)
       THEN /\ hotKeys' = LocalCacheSet(hotKeys, requests[p].key, "true",
                                        HotKeyExpiration, now)
            /\ requests' = [requests EXCEPT ![p].isHot = TRUE,
                                            ![p].pc = "counterLock.Unlock"]
       ELSE /\ Goto(p, "counterLock.Unlock")
            /\ UNCHANGED hotKeys
  /\ hist' = IF ReachedThreshold(requests[p].count)
                   /\ ~IsHotKey(hotKeys, requests[p].key, now)
                   /\ \E q \in Procs : /\ requests[q].op = "set"
                                       /\ requests[q].key = requests[p].key
                THEN [hist EXCEPT !.crossed[requests[p].key] = TRUE]
                ELSE hist
  /\ UNCHANGED <<others, now, counterCache, localCache, limiters, redis, resp,
                 counterLock, limiterMutex>>

\* RecordAccess line 169 (deferred) and handleGetKey line 65
RAUnlock(p) ==
  /\ At(p, "counterLock.Unlock")
  /\ counterLock' = Unlock(counterLock, p)
  /\ Goto(p, IF shielded(requests[p].isHot) THEN "localCache.Get"
             ELSE "redisClient.Get")
  /\ UNCHANGED <<others, now, counterCache, hotKeys, localCache, limiters, redis, resp,
                 hist, limiterMutex>>

\* handleGetKey lines 67-71
CacheLookup(p) ==
  /\ At(p, "localCache.Get")
  /\ LET cg == LocalCacheGet(localCache, requests[p].key, "", now)
     IN IF cg.found
          THEN Respond(p, StatusOK, "local_cache", cg.val)
          ELSE Goto(p, "limiterMutex.RLock") /\ UNCHANGED resp
  /\ UNCHANGED <<others, now, counterCache, hotKeys, localCache, limiters, redis, hist,
                 counterLock, limiterMutex>>

\* getLimiter line 65
GLRLock(p) ==
  /\ At(p, "limiterMutex.RLock")
  /\ CanRLock(limiterMutex)
  /\ limiterMutex' = RLock(limiterMutex, p)
  /\ Goto(p, "limiters[key]")
  /\ UNCHANGED <<others, now, counterCache, hotKeys, localCache, limiters, redis, resp,
                 hist, counterLock>>

\* getLimiter lines 66-71
GLRead(p) ==
  /\ At(p, "limiters[key]")
  /\ limiterMutex' = RUnlock(limiterMutex, p)
  /\ Goto(p, IF limiters[requests[p].key].present THEN "limiter.Allow"
             ELSE "limiterMutex.Lock")
  /\ UNCHANGED <<others, now, counterCache, hotKeys, localCache, limiters, redis, resp,
                 hist, counterLock>>

\* getLimiter line 74
GLLock(p) ==
  /\ At(p, "limiterMutex.Lock")
  /\ CanLock(limiterMutex)
  /\ limiterMutex' = Lock(limiterMutex, p)
  /\ Goto(p, "limiters[key]=")
  /\ UNCHANGED <<others, now, counterCache, hotKeys, localCache, limiters, redis, resp,
                 hist, counterLock>>

\* getLimiter lines 78-85
GLCreate(p) ==
  /\ At(p, "limiters[key]=")
  /\ limiters' = getLimiter(limiters, requests[p].key, now)
  /\ Goto(p, "limiterMutex.Unlock")
  /\ UNCHANGED <<others, now, counterCache, hotKeys, localCache, redis, resp, hist,
                 counterLock, limiterMutex>>

\* getLimiter line 75 (deferred)
GLUnlock(p) ==
  /\ At(p, "limiterMutex.Unlock")
  /\ limiterMutex' = Unlock(limiterMutex, p)
  /\ Goto(p, "limiter.Allow")
  /\ UNCHANGED <<others, now, counterCache, hotKeys, localCache, limiters, redis, resp,
                 hist, counterLock>>

\* Allow line 56 and handleGetKey lines 74-78
LimiterAllow(p) ==
  /\ At(p, "limiter.Allow")
  /\ LET al == Allow(limiters, requests[p].key, now)
     IN /\ limiters' = al.limiters
        /\ IF al.ok THEN Goto(p, "redisClient.Get") /\ UNCHANGED resp
           ELSE Respond(p, StatusTooManyRequests, "", "")
  /\ UNCHANGED <<others, now, counterCache, hotKeys, localCache, redis, hist,
                 counterLock, limiterMutex>>

\* handleGetKey lines 82-101: the store's Get returns
StoreGet(p) ==
  /\ At(p, "redisClient.Get")
  /\ \E fail \in BOOLEAN :
       LET g == RedisGet(redis, requests[p].key, fail, now)
       IN IF g.err THEN Respond(p, StatusInternalServerError, "", "")
          ELSE IF g.val = "" THEN Respond(p, StatusNotFound, "", "")
          ELSE IF populates(requests[p].isHot)
            THEN /\ requests' = [requests EXCEPT ![p].value = g.val,
                                                 ![p].pc = "localCache.Set"]
                 /\ UNCHANGED resp
          ELSE Respond(p, StatusOK, "redis", g.val)
  /\ UNCHANGED <<others, now, counterCache, hotKeys, localCache, limiters, redis, hist,
                 counterLock, limiterMutex>>

\* handleGetKey lines 97-101, handleSetKey lines 147-151
CacheStore(p) ==
  /\ At(p, "localCache.Set")
  /\ localCache' = LocalCacheSet(localCache, requests[p].key, requests[p].value,
                                 CacheTTL, now)
  /\ Respond(p, StatusOK, IF requests[p].op = "get" THEN "redis" ELSE "",
             requests[p].value)
  /\ UNCHANGED <<others, now, counterCache, hotKeys, limiters, redis, hist,
                 counterLock, limiterMutex>>

\* handleSetKey lines 137-143: the store's Set returns
StoreSet(p) ==
  /\ At(p, "redisClient.Set")
  /\ \E fail \in BOOLEAN :
       LET w == RedisSet(redis, requests[p].key, requests[p].value, StoreTTL,
                         fail, now)
       IN /\ redis' = w.store
          /\ IF w.err
               THEN Respond(p, StatusInternalServerError, "", requests[p].value)
               ELSE Goto(p, "hotKeyDet.IsHotKey") /\ UNCHANGED resp
  /\ UNCHANGED <<others, now, counterCache, hotKeys, localCache, limiters, hist,
                 counterLock, limiterMutex>>

\* handleSetKey lines 146-151
SetHotCheck(p) ==
  /\ At(p, "hotKeyDet.IsHotKey")
  /\ IF refreshes(hotKeys, requests[p].key, now)
       THEN /\ requests' = [requests EXCEPT ![p].isHot = TRUE,
                                            ![p].pc = "localCache.Set"]
            /\ UNCHANGED resp
       ELSE Respond(p, StatusOK, "", requests[p].value)
  /\ UNCHANGED <<others, now, counterCache, hotKeys, localCache, limiters, redis, hist,
                 counterLock, limiterMutex>>

ConcNext ==
  \E p \in Procs :
    \/ Receive(p)
    \/ RAHotCheck(p) \/ RALock(p) \/ RARead(p) \/ RAWrite(p) \/ RAMark(p)
    \/ RAUnlock(p)
    \/ CacheLookup(p)
    \/ GLRLock(p) \/ GLRead(p) \/ GLLock(p) \/ GLCreate(p) \/ GLUnlock(p)
    \/ LimiterAllow(p)
    \/ StoreGet(p) \/ CacheStore(p)
    \/ StoreSet(p) \/ SetHotCheck(p)

SpecConc == Init /\ [][ConcNext]_vars

\* ------------------------------ RecordAccess calls, interleaved, over time
\* goroutine p calls RecordAccess(k)
CallRA(p) ==
  /\ At(p, "idle")
  /\ hist.started < MaxRequests
  /\ hist' = [hist EXCEPT !.started = @ + 1]
  /\ \E k \in RequestKeys :
       requests' = [requests EXCEPT ![p] =
         [NoRequest EXCEPT !.pc = "hotKeys.Get", !.op = "RecordAccess",
                           !.key = k]]
  /\ UNCHANGED <<others, now, counterCache, hotKeys, localCache, limiters, redis, resp,
                 counterLock, limiterMutex>>

\* RecordAccess has returned to its caller (lines 165, 184, 188)
RAReturn(p) ==
  /\ requests[p].op = "RecordAccess"
  /\ At(p, "localCache.Get") \/ At(p, "redisClient.Get")
  /\ requests' = [requests EXCEPT ![p] = NoRequest]
  /\ resp' = [op |-> "RecordAccess", key |-> requests[p].key,
              result |-> requests[p].isHot, count |-> requests[p].count]
  /\ UNCHANGED <<others, now, counterCache, hotKeys, localCache, limiters, redis, hist,
                 counterLock, limiterMutex>>

\* --------------------------------- reads, interleaved, store calls counted
\* gin hands a GET /get/:key to its handler
ReceiveGet(p) ==
  /\ At(p, "idle")
  /\ hist.started < MaxRequests
  /\ hist' = [hist EXCEPT !.started = @ + 1]
  /\ \E k \in RequestKeys :
       requests' = [requests EXCEPT ![p] =
         [NoRequest EXCEPT !.pc = "hotKeys.Get", !.op = "get", !.key = k]]
  /\ UNCHANGED <<others, now, counterCache, hotKeys, localCache, limiters, redis, resp,
                 counterLock, limiterMutex>>

\* handleGetKey lines 82-101, counting the calls made while the key is hot
StoreGetCounted(p) ==
  /\ At(p, "redisClient.Get")
  /\ \E fail \in BOOLEAN :
       LET g == RedisGet(redis, requests[p].key, fail, now)
       IN IF g.err THEN Respond(p, StatusInternalServerError, "", "")
          ELSE IF g.val = "" THEN Respond(p, StatusNotFound, "", "")
          ELSE IF populates(requests[p].isHot)
            THEN /\ requests' = [requests EXCEPT ![p].value = g.val,
                                                 ![p].pc = "localCache.Set"]
                 /\ UNCHANGED resp
          ELSE Respond(p, StatusOK, "redis", g.val)
  /\ hist' = [hist EXCEPT !.hotGets[requests[p].key] =
                IF IsHotKey(hotKeys, requests[p].key, now) THEN @ + 1 ELSE @]
  /\ UNCHANGED <<others, now, counterCache, hotKeys, localCache, limiters, redis,
                 counterLock, limiterMutex>>

ConcReadsNext ==
  \E p \in Procs :
    \/ ReceiveGet(p)
    \/ RAHotCheck(p) \/ RALock(p) \/ RARead(p) \/ RAWrite(p) \/ RAMark(p)
    \/ RAUnlock(p)
    \/ CacheLookup(p)
    \/ GLRLock(p) \/ GLRead(p) \/ GLLock(p) \/ GLCreate(p) \/ GLUnlock(p)
    \/ LimiterAllow(p)
    \/ StoreGetCounted(p)

SpecConcReads == Init /\ [][ConcReadsNext]_vars

\* ------------------------------------- Allow calls, interleaved, and resets
MaxResets == 1

\* goroutine p calls Allow(k)
CallAllowConc(p) ==
  /\ At(p, "idle")
  /\ hist.started < MaxRequests
  /\ hist' = [hist EXCEPT !.started = @ + 1]
  /\ \E k \in RequestKeys :
       requests' = [requests EXCEPT ![p] =
         [NoRequest EXCEPT !.pc = "limiterMutex.RLock", !.op = "Allow", !.key = k]]
  /\ UNCHANGED <<others, now, counterCache, hotKeys, localCache, limiters, redis, resp,
                 counterLock, limiterMutex>>

\* getLimiter lines 78-85, counting the buckets made
AllowCreate(p) ==
  /\ At(p, "limiters[key]=")
  /\ limiters' = getLimiter(limiters, requests[p].key, now)
  /\ hist' = [hist EXCEPT
                !.created[requests[p].key] =
                  IF limiters' # limiters THEN @ + 1 ELSE @,
                !.allowed[requests[p].key] =
                  IF limiters' # limiters THEN 0 ELSE @,
                !.raced = @ \/ limiters[requests[p].key].present]
  /\ Goto(p, "limiterMutex.Unlock")
  /\ UNCHANGED <<others, now, counterCache, hotKeys, localCache, redis, resp,
                 counterLock, limiterMutex>>

\* the bucket goroutine p holds
Held(p) ==
  IF requests[p].limiter = 0 THEN limiters[requests[p].key]
  ELSE orphans[requests[p].key][requests[p].limiter]

\* Allow lines 56-60: limiter.Allow() on the bucket getLimiter returned
AllowDebit(p) ==
  /\ At(p, "limiter.Allow")
  /\ LET k == requests[p].key
         i == requests[p].limiter
         al == Allow([x \in Keys |-> IF x = k THEN Held(p) ELSE NoLimiter], k, now)
     IN /\ IF i = 0
             THEN /\ limiters' = [limiters EXCEPT ![k] = al.limiters[k]]
                  /\ UNCHANGED orphans
             ELSE /\ orphans' = [orphans EXCEPT ![k][i] = al.limiters[k]]
                  /\ UNCHANGED limiters
        /\ resp' = [op |-> "Allow", key |-> k, result |-> al.ok, count |-> 0]
        /\ hist' = [hist EXCEPT !.allowed[k] = IF al.ok /\ i = 0 THEN @ + 1 ELSE @]
  /\ requests' = [requests EXCEPT ![p] = NoRequest]
  /\ UNCHANGED <<counter, status, route, mlLocal, mlRedis, mlResp, health, mlCalls, now,
                 counterCache,
                 hotKeys, localCache, redis, counterLock, limiterMutex>>

\* p has a bucket from getLimiter and has not called its Allow yet
Holds(p, k) ==
  /\ At(p, "limiter.Allow")
  /\ requests[p].key = k
  /\ requests[p].limiter = 0

\* cleanup lines 97-103, one firing of the ticker: the map is replaced; the
\* buckets that callers hold live on outside it
ResetConc ==
  /\ hist.resets < MaxResets
  /\ CanLock(limiterMutex)
  /\ limiters' = cleanup(limiters)
  /\ orphans' = [k \in Keys |->
                   IF limiters[k].present /\ \E p \in Procs : Holds(p, k)
                     THEN Append(orphans[k], limiters[k]) ELSE orphans[k]]
  /\ requests' = [p \in Procs |->
                    IF Holds(p, requests[p].key) /\ limiters[requests[p].key].present
                      THEN [requests[p] EXCEPT
                              !.limiter = Len(orphans[requests[p].key]) + 1]
                      ELSE requests[p]]
  /\ hist' = [hist EXCEPT !.resets = @ + 1,
                          !.allowed = [k \in Keys |-> 0]]
  /\ UNCHANGED <<counter, status, route, mlLocal, mlRedis, mlResp, health, mlCalls, now,
                 counterCache,
                 hotKeys, localCache, redis, resp, counterLock, limiterMutex>>

ConcAllowNext ==
  \/ \E p \in Procs :
       \/ CallAllowConc(p)
       \/ GLRLock(p) \/ GLRead(p) \/ GLLock(p) \/ AllowCreate(p) \/ GLUnlock(p)
       \/ AllowDebit(p)
  \/ ResetConc

SpecConcAllow == ComponentInit /\ [][ConcAllowNext]_vars

ConcRecordNext ==
  \/ \E p \in Procs :
       \/ CallRA(p)
       \/ RAHotCheck(p) \/ RALock(p) \/ RARead(p) \/ RAWrite(p) \/ RAMark(p)
       \/ RAUnlock(p)
       \/ RAReturn(p)
  \/ Tick

SpecConcRecord == ComponentInit /\ [][ConcRecordNext]_vars

\* ------------------------------------------- the balancer on its own
CallNext ==
  /\ counter' = NextCounter(counter)
  /\ route' = [NoRoute EXCEPT !.op = "Next", !.counter = counter, !.pre = status,
                              !.index = NextIndex(counter, status, SlaveCount)]
  /\ UNCHANGED <<server, status, mlLocal, mlRedis, mlResp, orphans, health, mlCalls>>

CallMarkDown(index) ==
  /\ status' = MarkDown(status, index)
  /\ route' = [NoRoute EXCEPT !.op = "MarkDown", !.pre = status, !.index = index]
  /\ UNCHANGED <<server, counter, mlLocal, mlRedis, mlResp, orphans, health, mlCalls>>

CallMarkUp(index) ==
  /\ status' = MarkUp(status, index)
  /\ route' = [NoRoute EXCEPT !.op = "MarkUp", !.pre = status, !.index = index]
  /\ UNCHANGED <<server, counter, mlLocal, mlRedis, mlResp, orphans, health, mlCalls>>

BalancerNext ==
  \/ CallNext
  \/ \E index \in -1..SlaveCount : CallMarkDown(index)
  \/ \E index \in -1..SlaveCount : CallMarkUp(index)

SpecBalancer == Init /\ [][BalancerNext]_vars

\* ------------------------------------------------ the proxy on its own
\* the commands sent: writes, reads, and one the table does not know
ProxyCommands == {"set", "del", "get", "hgetall", "ping"}

CallProcess(cmd, failing) ==
  LET r == Process(cmd, counter, status, failing)
  IN /\ counter' = r.counter
     /\ status' = r.status
     /\ route' = [op |-> "Process", cmd |-> cmd, failing |-> failing,
                  counter |-> counter, pre |-> status,
                  target |-> r.target, index |-> r.index, tried |-> r.tried]
     /\ UNCHANGED <<server, mlLocal, mlRedis, mlResp, orphans, health, mlCalls>>

CallHealthCheck(alive) ==
  /\ status' = HealthCheck(status, alive)
  /\ route' = [NoRoute EXCEPT !.op = "HealthCheck", !.failing = Slaves \ alive,
                              !.pre = status]
  /\ UNCHANGED <<server, counter, mlLocal, mlRedis, mlResp, orphans, health, mlCalls>>

ProxyNext ==
  \/ \E cmd \in ProxyCommands, failing \in SUBSET Slaves : CallProcess(cmd, failing)
  \/ \E alive \in SUBSET Slaves : CallHealthCheck(alive)

SpecProxy == Init /\ [][ProxyNext]_vars

\* ------------------------- the proxy with its replicas and its ticker
\* a replica answers, or fails every command at once (connection refused), or
\* does not answer at all
Conditions == {"up", "refusing", "hanging"}

\* the replicas on which a command's Do or Ping cannot succeed
Unreachable(h) == {i \in Slaves : h[i] # "up"}

\* HealthCheck lines 171-176: the replicas whose ping returns no error.  One
\* context with a 2 s timeout is made before the loop and handed to every
\* ping, in index order: the ping of a replica that does not answer returns
\* when that context expires, and every ping after it fails on the expired
\* context.
Pings(h) ==
  {i \in Slaves : h[i] = "up" /\ \A j \in Slaves : j < i => h[j] # "hanging"}

\* a replica fails, hangs or is repaired
ReplicaChanges(i, c) ==
  /\ health[i] # c
  /\ health' = [health EXCEPT ![i] = c]
  /\ UNCHANGED <<server, counter, status, route, mlLocal, mlRedis, mlResp,
                 orphans, mlCalls>>

\* a client's read: Do fails on the replicas that do not answer.  Of the call
\* only where it ran is recorded.
ClientRead ==
  LET r == Process("get", counter, status, Unreachable(health))
  IN /\ counter' = r.counter
     /\ status' = r.status
     /\ route' = [NoRoute EXCEPT !.op = "Process", !.cmd = "get",
                                 !.target = r.target, !.index = r.index]
     /\ UNCHANGED <<server, mlLocal, mlRedis, mlResp, orphans, health, mlCalls>>

\* StartHealthCheck lines 194-196: the ticker fires and HealthCheck runs
TickerFires ==
  /\ status' = HealthCheck(status, Pings(health))
  /\ route' = [NoRoute EXCEPT !.op = "HealthCheck"]
  /\ UNCHANGED <<server, counter, mlLocal, mlRedis, mlResp, orphans, health,
                 mlCalls>>

ProxyLiveNext ==
  \/ \E i \in Slaves, c \in Conditions : ReplicaChanges(i, c)
  \/ ClientRead
  \/ TickerFires

\* the ticker keeps firing, and reads keep arriving
SpecProxyLive ==
  Init /\ [][ProxyLiveNext]_vars /\ WF_vars(TickerFires) /\ WF_vars(ClientRead)

\* ------------------------------------- the multi-level cache on its own
\* the values and expirations given to Set
MLValues == {NilValue, "", "v1"}
MLExpirations == {0, 1}

MLRecord(op, key, r) ==
  [NoMLResp EXCEPT !.op = op, !.key = key, !.val = r.val, !.err = r.err,
                   !.redisCalled = r.redisCalled, !.at = now,
                   !.localErr = MLLocalGet(mlLocal, key, now).err,
                   !.covered = key = "a" /\ mlResp.wbExp >= now]

CallMLGet(key, fail) ==
  LET r == MultiLevelGet(mlLocal, mlRedis, key, now, fail)
  IN /\ mlLocal' = r.local
     /\ mlRedis' = r.redis
     /\ mlResp' = [MLRecord("Get", key, r) EXCEPT
                     !.wbExp = IF key = "a" /\ r.redisCalled /\ r.err = "nil"
                               THEN now + LocalDefaultExpiration
                               ELSE mlResp.wbExp]
     /\ UNCHANGED <<server, counter, status, route, orphans, health, mlCalls>>

CallMLSet(key, value, expiration, fail) ==
  LET r == MultiLevelSet(mlLocal, mlRedis, key, value, expiration, now, fail)
  IN /\ mlLocal' = r.local
     /\ mlRedis' = r.redis
     /\ mlResp' = [MLRecord("Set", key, r) EXCEPT
                     !.wbExp = IF key = "a" /\ value # NilValue /\ mlResp.wbExp >= 0
                               THEN now + (IF expiration <= 0
                                           THEN LocalDefaultExpiration
                                           ELSE expiration)
                               ELSE mlResp.wbExp]
     /\ UNCHANGED <<server, counter, status, route, orphans, health, mlCalls>>

CallMLDelete(key, fail) ==
  LET r == MultiLevelDelete(mlLocal, mlRedis, key, fail)
  IN /\ mlLocal' = r.local
     /\ mlRedis' = r.redis
     /\ mlResp' = [MLRecord("Delete", key, r) EXCEPT
                     !.wbExp = IF key = "a" THEN -1 ELSE mlResp.wbExp]
     /\ UNCHANGED <<server, counter, status, route, orphans, health, mlCalls>>

\* another instance of the program writes the shared Redis
OtherInstanceSet(key, value, expiration) ==
  /\ mlRedis' = MLRedisSet(mlRedis, key, value, expiration, now, FALSE).cache
  /\ mlResp' = [NoMLResp EXCEPT !.op = "OtherSet", !.key = key, !.at = now,
                                !.wbExp = mlResp.wbExp]
  /\ UNCHANGED <<server, counter, status, route, mlLocal, orphans, health, mlCalls>>

MLKeys == {"a", ""}

MLNext ==
  \/ \E key \in MLKeys, fail \in BOOLEAN : CallMLGet(key, fail)
  \/ \E key \in MLKeys, value \in MLValues, expiration \in MLExpirations,
        fail \in BOOLEAN : CallMLSet(key, value, expiration, fail)
  \/ \E key \in MLKeys, fail \in BOOLEAN : CallMLDelete(key, fail)
  \/ \E value \in MLValues \ {NilValue}, expiration \in MLExpirations :
        OtherInstanceSet("a", value, expiration)
  \/ Tick

SpecMultiLevel == Init /\ [][MLNext]_vars

\* ------------------------ multi-level cache calls, statement by statement
\* everything of the rate-limit server but its history
serverState == <<now, counterCache, hotKeys, localCache, limiters, redis, resp,
                 counterLock, limiterMutex, requests>>

MLAt(p, pc) == mlCalls[p].pc = pc
MLGoto(p, pc) == mlCalls' = [mlCalls EXCEPT ![p].pc = pc]

\* the call of goroutine p returns
MLReturn(p, val, err) ==
  /\ mlCalls' = [mlCalls EXCEPT ![p] = NoMLCall]
  /\ mlResp' = [NoMLResp EXCEPT !.op = mlCalls[p].op, !.key = mlCalls[p].key,
                                !.val = val, !.err = err,
                                !.afterDelete = mlCalls[p].clean]

\* Get is called
StartGet(p) ==
  /\ MLAt(p, "idle")
  /\ mlCalls' = [mlCalls EXCEPT ![p] =
       [NoMLCall EXCEPT !.pc = "local.Get", !.op = "Get", !.key = "a",
                        !.clean = hist.deleted]]
  /\ UNCHANGED <<server, counter, status, route, mlLocal, mlRedis, mlResp,
                 orphans, health>>

\* Set is called
StartSet(p, value) ==
  /\ MLAt(p, "idle")
  /\ mlCalls' = [q \in MLCallers |->
       IF q = p THEN [NoMLCall EXCEPT !.pc = "local.Set", !.op = "Set",
                                      !.key = "a", !.val = value]
       ELSE [mlCalls[q] EXCEPT !.clean = FALSE]]
  /\ hist' = [hist EXCEPT !.deleted = FALSE]
  /\ UNCHANGED <<serverState, counter, status, route, mlLocal, mlRedis, mlResp,
                 orphans, health>>

\* Delete is called
StartDelete(p) ==
  /\ MLAt(p, "idle")
  /\ mlCalls' = [mlCalls EXCEPT ![p] =
       [NoMLCall EXCEPT !.pc = "local.Delete", !.op = "Delete", !.key = "a",
                        !.clean = \A q \in MLCallers : mlCalls[q].op # "Set"]]
  /\ UNCHANGED <<server, counter, status, route, mlLocal, mlRedis, mlResp,
                 orphans, health>>

\* Get lines 43-51
GetLocal(p) ==
  /\ MLAt(p, "local.Get")
  /\ LET l == MLLocalGet(mlLocal, mlCalls[p].key, now)
     IN IF l.err = "nil" THEN MLReturn(p, l.val, "nil")
        ELSE IF l.err # "ErrKeyNotFound" THEN MLReturn(p, NilValue, l.err)
        ELSE MLGoto(p, "redis.Get") /\ UNCHANGED mlResp
  /\ UNCHANGED <<server, counter, status, route, mlLocal, mlRedis, orphans, health>>

\* Get lines 54-55 and 61-64
GetRedis(p) ==
  /\ MLAt(p, "redis.Get")
  /\ LET r == MLRedisGet(mlRedis, mlCalls[p].key, now, FALSE)
     IN IF r.err = "nil"
          THEN /\ mlCalls' = [mlCalls EXCEPT ![p].pc = "local.Set(58)",
                                             ![p].val = r.val]
               /\ UNCHANGED mlResp
          ELSE MLReturn(p, NilValue, r.err)
  /\ UNCHANGED <<server, counter, status, route, mlLocal, mlRedis, orphans, health>>

\* Get lines 58-59: the write-back
GetWriteBack(p) ==
  /\ MLAt(p, "local.Set(58)")
  /\ mlLocal' = MLLocalSet(mlLocal, mlCalls[p].key, mlCalls[p].val, 0, now).cache
  /\ MLReturn(p, mlCalls[p].val, "nil")
  /\ UNCHANGED <<server, counter, status, route, mlRedis, orphans, health>>

\* Set line 69
SetLocal(p) ==
  /\ MLAt(p, "local.Set")
  /\ LET r1 == MLLocalSet(mlLocal, mlCalls[p].key, mlCalls[p].val, 0, now)
     IN /\ mlLocal' = r1.cache
        /\ mlCalls' = [mlCalls EXCEPT ![p].pc = "redis.Set", ![p].err = r1.err]
  /\ UNCHANGED <<server, counter, status, route, mlRedis, mlResp, orphans, health>>

\* Set lines 70-81
SetRedis(p, fail) ==
  /\ MLAt(p, "redis.Set")
  /\ LET r2 == MLRedisSet(mlRedis, mlCalls[p].key, mlCalls[p].val, 0, now, fail)
     IN /\ mlRedis' = r2.cache
        /\ MLReturn(p, NilValue,
                    IF mlCalls[p].err # "nil" THEN mlCalls[p].err ELSE r2.err)
  /\ UNCHANGED <<server, counter, status, route, mlLocal, orphans, health>>

\* Delete line 86
DeleteLocal(p) ==
  /\ MLAt(p, "local.Delete")
  /\ LET r1 == MLLocalDelete(mlLocal, mlCalls[p].key)
     IN /\ mlLocal' = r1.cache
        /\ mlCalls' = [mlCalls EXCEPT ![p].pc = "redis.Delete", ![p].err = r1.err]
  /\ UNCHANGED <<server, counter, status, route, mlRedis, mlResp, orphans, health>>

\* Delete lines 87-98
DeleteRedis(p, fail) ==
  /\ MLAt(p, "redis.Delete")
  /\ LET r2 == MLRedisDelete(mlRedis, mlCalls[p].key, fail)
         err == IF mlCalls[p].err # "nil" THEN mlCalls[p].err ELSE r2.err
     IN /\ mlRedis' = r2.cache
        /\ MLReturn(p, NilValue, err)
        /\ hist' = IF err = "nil" /\ mlCalls[p].clean
                     THEN [hist EXCEPT !.deleted = TRUE] ELSE hist
  /\ UNCHANGED <<serverState, counter, status, route, mlLocal, orphans, health>>

MLConcNext ==
  \E p \in MLCallers :
    \/ StartGet(p)
    \/ StartSet(p, "v1")
    \/ StartDelete(p)
    \/ GetLocal(p)
    \/ GetRedis(p)
    \/ GetWriteBack(p)
    \/ SetLocal(p)
    \/ \E fail \in BOOLEAN : SetRedis(p, fail)
    \/ DeleteLocal(p)
    \/ \E fail \in BOOLEAN : DeleteRedis(p, fail)

SpecMLConc == Init /\ [][MLConcNext]_vars

\* -------------------------------------------------------------- claims
Has(calls, name) == \E i \in 1..Len(calls) : calls[i] = name

\* C1: a read of a hot key that misses the fallback cache and is denied by
\* Allow answers 429 (not 404, 500 or 200), makes no store Get and leaves the
\* fallback cache and the store as they were.
C1_ThrottledSkipsStore ==
  [][\A k \in RequestKeys :
       (/\ GetKey(k)
        /\ RecordAccess(counterCache, hotKeys, k, now).hot
        /\ ~LocalCacheGet(localCache, k, "", now).found
        /\ ~Allow(limiters, k, now).ok)
       => /\ resp'.status = StatusTooManyRequests
          /\ resp'.status \notin {StatusNotFound, StatusInternalServerError, StatusOK}
          /\ ~Has(resp'.calls, "redisClient.Get")
          /\ ~Has(resp'.calls, "localCache.Set")
          /\ localCache' = localCache
          /\ redis' = redis]_vars

C1_Witness ==
  resp.op = "get" /\ resp.isHot /\ resp.status = StatusTooManyRequests

\* C2: a read for which RecordAccess answers false makes exactly one store
\* Get and no fallback-cache call, and leaves the fallback cache as it was.
C2_ColdReadHitsStoreOnly ==
  [][\A k \in RequestKeys :
       (GetKey(k) /\ ~RecordAccess(counterCache, hotKeys, k, now).hot)
       => /\ resp'.calls = <<"hotKeyDet.RecordAccess", "redisClient.Get">>
          /\ localCache' = localCache
          /\ redis' = redis]_vars

C2_Witness ==
  /\ resp.op = "get" /\ ~resp.isHot /\ resp.status = StatusOK
  /\ GetAccessCount(counterCache, resp.key, now) = 2

\* C3 as stated: while a key's fallback entry is live, every read of the key
\* is answered from the fallback cache, with no store Get and no Allow.
C3_Original ==
  [][\A k \in RequestKeys :
       (GetKey(k) /\ LocalCacheGet(localCache, k, "", now).found)
       => /\ resp'.source = "local_cache"
          /\ ~Has(resp'.calls, "redisClient.Get")
          /\ ~Has(resp'.calls, "rateLimiter.Allow")]_vars

\* C3 amended: while a key's fallback entry is live, every read of the key
\* for which RecordAccess answers true is answered from the fallback cache
\* with the entry's value, with no store Get and no Allow.
C3_WarmHotReadFromCache ==
  [][\A k \in RequestKeys :
       (/\ GetKey(k)
        /\ RecordAccess(counterCache, hotKeys, k, now).hot
        /\ LocalCacheGet(localCache, k, "", now).found)
       => /\ resp'.status = StatusOK
          /\ resp'.source = "local_cache"
          /\ resp'.value = localCache[k].val
          /\ resp'.calls = <<"hotKeyDet.RecordAccess", "localCache.Get">>
          /\ UNCHANGED <<localCache, limiters, redis>>]_vars

C3_Witness ==
  resp.op = "get" /\ resp.isHot /\ resp.source = "local_cache"

\* C4: a read for which RecordAccess answers false never calls Allow, leaves
\* every token bucket as it was and never answers 429.
C4_LimiterOnlyForHot ==
  [][\A k \in RequestKeys :
       (GetKey(k) /\ ~RecordAccess(counterCache, hotKeys, k, now).hot)
       => /\ ~Has(resp'.calls, "rateLimiter.Allow")
          /\ limiters' = limiters
          /\ resp'.status # StatusTooManyRequests]_vars

C4_Witness ==
  /\ resp.op = "get" /\ ~resp.isHot
  /\ limiters[resp.key].present

C6_HotForTTL ==
  \A k \in Keys :
    IsHotKey(hotKeys, k, now)
      <=> (hist.markedAt[k] >= 0 /\ now <= hist.markedAt[k] + HotKeyExpiration)

C6_Witness ==
  /\ resp.op = "IsHotKey" /\ ~resp.result
  /\ hist.markedAt[resp.key] >= 0
  /\ now > hist.markedAt[resp.key] + HotKeyExpiration

\* C7: of the Allow calls made at the clock value at which the key's bucket
\* was created by Allow, the first BurstSize are granted and the next denied.
C7_BurstThenDeny ==
  \A k \in Keys :
    hist.run[k].at >= 0
      => hist.run[k].granted = Min(hist.run[k].calls, BurstSize)

C7_Witness ==
  /\ resp.op = "Allow" /\ ~resp.result
  /\ hist.run[resp.key].calls = BurstSize + 1
  /\ hist.run[resp.key].granted = BurstSize

\* C8: an Allow made at least TokenScale / rate ticks after a denied Allow on
\* the same key, with no Allow on that key in between, is granted; and the
\* tokens a bucket holds do not decrease when only time passes.
C8_RefillAfterDenial ==
  /\ [](\A k \in Keys : hist.lastAllow[k].waited => hist.lastAllow[k].ok)
  /\ [][Tick => \A k \in Keys :
                  limiters[k].present
                    => Advance(limiters[k], now') >= Advance(limiters[k], now)]_vars

C8_Witness ==
  /\ resp.op = "Allow" /\ resp.result
  /\ hist.lastAllow[resp.key].waited

\* C9 as stated: no request (read, write, stats) for a key that was never
\* flagged hot calls the fallback cache.
C9_Original ==
  \A k \in RequestKeys :
    (resp.key = k /\ ~hotKeys[k].present)
      => /\ ~Has(resp.calls, "localCache.Get")
         /\ ~Has(resp.calls, "localCache.Set")

\* C9 amended: a key that was never flagged hot has no fallback entry, no
\* request for it writes the fallback cache, and no read or write of it looks
\* the fallback cache up (stats does look it up).
C9_ColdKeyNotCached ==
  \A k \in Keys :
    ~hotKeys[k].present
      => /\ ~localCache[k].present
         /\ resp.key = k
              => /\ ~Has(resp.calls, "localCache.Set")
                 /\ resp.op \in {"get", "set"} => ~Has(resp.calls, "localCache.Get")

C9_Witness ==
  /\ resp.op = "set" /\ resp.status = StatusOK
  /\ ~hotKeys[resp.key].present
  /\ StoredValue(redis, resp.key, now) = resp.value

\* what a successful write of v to k leaves in the fallback cache
WriteThrough(k, v) ==
  IF IsHotKey(hotKeys, k, now)
    THEN localCache' = [localCache EXCEPT
                          ![k] = [present |-> TRUE, val |-> v, exp |-> now + CacheTTL]]
    ELSE localCache' = localCache

\* what a successful write of v to k leaves in the store
Stored(k, v) ==
  redis' = [redis EXCEPT ![k] = [present |-> TRUE, val |-> v, exp |-> now + StoreTTL]]

\* C10 as stated: every write calls the store's Set, and a successful one
\* refreshes the fallback entry iff the key is hot.
C10_Original ==
  [][\A k \in RequestKeys, v \in Values \cup {""} :
       SetKey(k, v)
       => /\ Has(resp'.calls, "redisClient.Set")
          /\ resp'.status = StatusOK => (Stored(k, v) /\ WriteThrough(k, v))]_vars

\* C10 amended: every write of a non-empty value calls the store's Set, and a
\* successful one overwrites the fallback entry with the value and a fresh
\* TTL if the key is hot and leaves the fallback cache as it was if not.
C10_WriteThroughHotOnly ==
  [][\A k \in RequestKeys, v \in Values :
       SetKey(k, v)
       => /\ Has(resp'.calls, "redisClient.Set")
          /\ resp'.status = StatusOK => (Stored(k, v) /\ WriteThrough(k, v))]_vars

C10_Witness ==
  /\ resp.op = "set" /\ resp.status = StatusOK /\ resp.isHot
  /\ localCache[resp.key] =
       [present |-> TRUE, val |-> resp.value, exp |-> now + CacheTTL]

\* a read of k during which the store's Get, if called, fails or not
GetKeyWith(k, fail) ==
  /\ Commit(handleGetKey(k, Components, fail, now))
  /\ UNCHANGED <<others, conc, now, hist>>

\* the read of k about to be made gets as far as the store
StoreReached(k) ==
  \/ ~RecordAccess(counterCache, hotKeys, k, now).hot
  \/ /\ ~LocalCacheGet(localCache, k, "", now).found
     /\ Allow(limiters, k, now).ok

Count(calls, name) == Cardinality({i \in 1..Len(calls) : calls[i] = name})

\* C11: a read whose store Get fails answers 500 (not 404 or 429) with no
\* value, calls the store exactly once and leaves the fallback cache and the
\* store as they were.
C11_StoreErrorSurfaced ==
  [][\A k \in RequestKeys :
       (GetKeyWith(k, TRUE) /\ StoreReached(k))
       => /\ resp'.status = StatusInternalServerError
          /\ resp'.status \notin {StatusNotFound, StatusTooManyRequests, StatusOK}
          /\ Count(resp'.calls, "redisClient.Get") = 1
          /\ resp'.value = "" /\ resp'.source = ""
          /\ ~Has(resp'.calls, "localCache.Set")
          /\ localCache' = localCache
          /\ redis' = redis]_vars

C11_Witness ==
  /\ resp.op = "get" /\ resp.status = StatusInternalServerError
  /\ LocalCacheGet(localCache, resp.key, "", now).found

\* C12 as stated: a read that finds the key absent from the store answers 404
\* and leaves the fallback cache as it was, and every read of a hot key that
\* is absent from the store calls Allow.
C12_Original ==
  [][\A k \in RequestKeys :
       (GetKeyWith(k, FALSE) /\ StoredValue(redis, k, now) = "")
       => /\ StoreReached(k) => resp'.status = StatusNotFound
          /\ localCache' = localCache
          /\ RecordAccess(counterCache, hotKeys, k, now).hot
               => Has(resp'.calls, "rateLimiter.Allow")]_vars

\* C12 amended: a read that finds the key absent from the store answers 404
\* and leaves the fallback cache as it was, for hot and cold keys; every read
\* of a hot key that is absent from the store and has no live fallback entry
\* calls Allow.
C12_AbsentNotCached ==
  [][\A k \in RequestKeys :
       (GetKeyWith(k, FALSE) /\ StoredValue(redis, k, now) = "")
       => /\ StoreReached(k)
               => /\ resp'.status = StatusNotFound
                  /\ resp'.value = ""
                  /\ ~Has(resp'.calls, "localCache.Set")
          /\ localCache' = localCache
          /\ (/\ RecordAccess(counterCache, hotKeys, k, now).hot
              /\ ~LocalCacheGet(localCache, k, "", now).found)
               => Has(resp'.calls, "rateLimiter.Allow")]_vars

C12_Witness ==
  /\ resp.op = "get" /\ resp.isHot /\ resp.status = StatusNotFound
  /\ Has(resp.calls, "rateLimiter.Allow")
  /\ ~localCache[resp.key].present

\* C13: with all reads of a previously untracked key inside one window, a
\* stats request made after exactly Threshold - 1 of them, while the counter
\* record is live, reports accessCount = Threshold - 1 and isHot = FALSE; made
\* after the Threshold-th, within the hot flag's lifetime, it reports
\* isHot = TRUE.
C13_StatsAroundThreshold ==
  [][\A k \in RequestKeys :
       LET s == hist.streak[k]
       IN (KeyStats(k) /\ s.last <= s.start + Window)
          => /\ (s.n = Threshold - 1 /\ now <= s.last + Window)
                  => /\ resp'.stats[1] = Threshold - 1
                     /\ resp'.stats[2] = FALSE
             /\ (s.n = Threshold /\ now <= s.last + HotKeyExpiration)
                  => resp'.stats[2] = TRUE]_vars

C13_Witness ==
  /\ resp.op = "stats"
  /\ resp.stats[1] = Threshold - 1 /\ resp.stats[2] = FALSE
  /\ hist.streak[resp.key].n = Threshold - 1

\* the Threshold-th read was made and stats then reported the key hot
C13_WitnessHot ==
  /\ resp.op = "stats" /\ resp.stats[2] = TRUE
  /\ hist.streak[resp.key].n = Threshold

\* C15: the hot-key listing returns exactly the keys whose hot flag is live.
C15_ListHotIsLiveSet ==
  [][HotKeys
       => {resp'.stats[i] : i \in 1..Len(resp'.stats)}
            = {k \in Keys : IsHotKey(hotKeys, k, now)}]_vars

\* C19: every bucket holds between 0 and its capacity, in store and as
\* refilled to the current time, and a denied Allow leaves the bucket's tokens
\* undiminished.
C19_TokensWithinCapacity ==
  /\ [](\A k \in Keys :
          limiters[k].present
            => /\ 0 <= limiters[k].tokens
               /\ limiters[k].tokens <= limiters[k].burst * TokenScale
               /\ 0 <= Advance(limiters[k], now)
               /\ Advance(limiters[k], now) <= limiters[k].burst * TokenScale)
  /\ [][\A k \in RequestKeys :
          (CallAllow(k) /\ ~resp'.result)
            => /\ limiters'[k].present
               /\ Advance(limiters'[k], now)
                    >= Advance(getLimiter(limiters, k, now)[k], now)]_vars

\* a denied Allow, and since then more refill than the bucket has room for
C19_Witness ==
  /\ resp.op = "Allow" /\ ~resp.result
  /\ limiters[resp.key].present
  /\ limiters[resp.key].tokens
       + (now - limiters[resp.key].last) * limiters[resp.key].rate
     > limiters[resp.key].burst * TokenScale

\* C20: a read of a hot key that misses the fallback cache, is admitted by
\* Allow and finds a value in the store answers 200 with that value and
\* source redis, and leaves a fallback entry holding exactly that value with
\* the fallback TTL, written after the store read; and no read writes the
\* fallback cache unless its store read returned a value.
C20_AdmittedMissPopulates ==
  [][\A k \in RequestKeys, fail \in BOOLEAN :
       GetKeyWith(k, fail)
       => /\ (/\ ~fail
              /\ RecordAccess(counterCache, hotKeys, k, now).hot
              /\ ~LocalCacheGet(localCache, k, "", now).found
              /\ Allow(limiters, k, now).ok
              /\ StoredValue(redis, k, now) # "")
               => /\ resp'.status = StatusOK
                  /\ resp'.value = StoredValue(redis, k, now)
                  /\ resp'.source = "redis"
                  /\ localCache' =
                       [localCache EXCEPT ![k] =
                          [present |-> TRUE, val |-> StoredValue(redis, k, now),
                           exp |-> now + CacheTTL]]
                  /\ SubSeq(resp'.calls, Len(resp'.calls) - 1, Len(resp'.calls))
                       = <<"redisClient.Get", "localCache.Set">>
          /\ localCache' # localCache
               => /\ ~fail /\ StoredValue(redis, k, now) # ""
                  /\ resp'.status = StatusOK
                  /\ Has(resp'.calls, "redisClient.Get")]_vars

C20_Witness ==
  /\ resp.op = "get" /\ resp.isHot /\ resp.status = StatusOK
  /\ resp.source = "redis"
  /\ Has(resp.calls, "rateLimiter.Allow")
  /\ localCache[resp.key] =
       [present |-> TRUE, val |-> resp.value, exp |-> now + CacheTTL]

C16_NoLostIncrement ==
  /\ [](\A k \in Keys : GetAccessCount(counterCache, k, now) = hist.recorded[k])
  /\ [][\A p \in Procs :
          RAWrite(p)
            => GetAccessCount(counterCache', requests[p].key, now)
                 = GetAccessCount(counterCache, requests[p].key, now) + 1]_vars

\* two recorders of one cold key in RecordAccess at once, the second
\* increment written
C16_Witness ==
  \E p, q \in Procs :
    /\ p # q /\ requests[p].key = requests[q].key
    /\ At(p, "threshold") /\ requests[p].count = Threshold - 1
    /\ At(q, "counterLock.Lock")

\* C17: no request waits at a lock that is held by a request working on a
\* different key.
C17_UnrelatedKeysNeverContend ==
  \A p, q \in Procs :
    (p # q /\ requests[p].key # requests[q].key)
      => /\ ~(At(p, "counterLock.Lock") /\ counterLock.writer = q)
         /\ ~(/\ At(p, "limiterMutex.Lock")
              /\ (limiterMutex.writer = q \/ q \in limiterMutex.readers))
         /\ ~(At(p, "limiterMutex.RLock") /\ limiterMutex.writer = q)

\* C18: a request at the store's Get or Set holds neither counterLock nor
\* limiterMutex; and a request at a Lock or RLock while every other request
\* is idle or in a store call finds the mutex available.
C18_StoreCallOutsideLocks ==
  /\ \A p \in Procs :
       (At(p, "redisClient.Get") \/ At(p, "redisClient.Set"))
         => /\ counterLock.writer # p /\ p \notin counterLock.readers
            /\ limiterMutex.writer # p /\ p \notin limiterMutex.readers
  /\ \A q \in Procs :
       (\A p \in Procs \ {q} :
          requests[p].pc \in {"idle", "redisClient.Get", "redisClient.Set"})
         => /\ At(q, "counterLock.Lock") => CanLock(counterLock)
            /\ At(q, "limiterMutex.RLock") => CanRLock(limiterMutex)
            /\ At(q, "limiterMutex.Lock") => CanLock(limiterMutex)

\* a request that took and released both locks is in the store's Get while
\* another stands at counterLock.Lock
C18_Witness ==
  \E p, q \in Procs :
    /\ At(p, "redisClient.Get")
    /\ requests[p].isHot /\ requests[p].count >= Threshold
    /\ At(q, "counterLock.Lock")

\* the key's counter record is in the map and its deadline has not passed
LiveRecord(k) == counterCache[k].present /\ now <= counterCache[k].exp

\* C25: an access to a key that is not hot leaves the count 1 if the key had
\* no live record and the live count + 1 otherwise, with the deadline at
\* now + Window; a record whose deadline has passed reads as count 0 in
\* GetAccessCount and in stats.
C25_CountAndDeadline ==
  /\ [][\A k \in RequestKeys :
          (CallRecordAccess(k) /\ ~IsHotKey(hotKeys, k, now))
            => /\ counterCache'[k].present
               /\ counterCache'[k].exp = now + Window
               /\ ParseDuration(counterCache'[k].val)
                    = IF LiveRecord(k)
                        THEN ParseDuration(counterCache[k].val) + 1 ELSE 1]_vars
  /\ [](\A k \in Keys :
          ~LiveRecord(k)
            => /\ GetAccessCount(counterCache, k, now) = 0
               /\ handleKeyStats(k, Components, now).r.stats[1] = 0)
  /\ [][\A k \in RequestKeys :
          (CallGetAccessCount(k) /\ ~LiveRecord(k)) => resp'.count = 0]_vars

\* a record left at count >= 2 whose deadline has passed read as 0
C25_Witness ==
  /\ resp.op = "GetAccessCount" /\ resp.count = 0
  /\ counterCache[resp.key].present
  /\ ParseDuration(counterCache[resp.key].val) >= 2
  /\ now > counterCache[resp.key].exp

\* an access at the very deadline of a record of count >= 1 counted on from it
C25_WitnessAtDeadline ==
  /\ resp.op = "RecordAccess" /\ resp.count >= 2
  /\ hist.lastAccess[resp.key] = now
  /\ Len(hist.recent[resp.key]) >= 2
  /\ hist.recent[resp.key][Len(hist.recent[resp.key]) - 1] = now - Window

\* C26: RecordAccess on a key whose hot flag is live returns true and leaves
\* the counter records and the flags as they were, so a flag not cleared
\* expires HotKeyExpiration after it was set.
C26_HotAccessChangesNothing ==
  /\ [][\A k \in RequestKeys :
          (CallRecordAccess(k) /\ IsHotKey(hotKeys, k, now))
            => /\ resp'.result
               /\ counterCache' = counterCache
               /\ hotKeys' = hotKeys]_vars
  /\ [](\A k \in Keys :
          IsHotKey(hotKeys, k, now)
            => hotKeys[k].exp = hist.markedAt[k] + HotKeyExpiration)

\* an access answered true at a later clock value than the one that set the flag
C26_Witness ==
  /\ resp.op = "RecordAccess" /\ resp.result
  /\ hist.lastAccess[resp.key] = now
  /\ hist.markedAt[resp.key] >= 0 /\ hist.markedAt[resp.key] < now
  /\ IsHotKey(hotKeys, resp.key, now)

\* C27: RecordAccess returns true exactly when the flag was live at the call
\* or the count it wrote is >= Threshold, and then the flag is live, in the
\* second case with expiry now + HotKeyExpiration; otherwise it returns false
\* and the key has no live flag.
C27_TrueIffHotOrCrossing ==
  [][\A k \in RequestKeys :
       CallRecordAccess(k)
         => LET wasHot == IsHotKey(hotKeys, k, now)
                crossing == /\ ~wasHot
                            /\ ParseDuration(counterCache'[k].val) >= Threshold
            IN /\ resp'.result <=> (wasHot \/ crossing)
               /\ crossing
                    => hotKeys'[k] = [present |-> TRUE, val |-> "true",
                                      exp |-> now + HotKeyExpiration]
               /\ (~wasHot /\ ~crossing)
                    => /\ hotKeys' = hotKeys
                       /\ ~IsHotKey(hotKeys', k, now)]_vars

\* the access that wrote count = Threshold was answered true
C27_Witness ==
  /\ resp.op = "RecordAccess" /\ resp.result /\ resp.count = Threshold
  /\ hist.markedAt[resp.key] = now
  /\ hotKeys[resp.key].exp = now + HotKeyExpiration

\* C29: once a key's hot flag has run out (not cleared), each of the next
\* Threshold - 1 RecordAccess calls for the key returns false and leaves no
\* flag, the first of them writing count 1 and the j-th a count of at most j.
C29_RestartAfterExpiry ==
  [][\A k \in RequestKeys :
       (/\ CallRecordAccess(k)
        /\ hist.markedAt[k] >= 0
        /\ now > hist.markedAt[k] + HotKeyExpiration
        /\ hist.afterExpiry[k] < Threshold - 1)
         => /\ ~resp'.result
            /\ ~IsHotKey(hotKeys', k, now)
            /\ resp'.count <= hist.afterExpiry[k] + 1
            /\ hist.afterExpiry[k] = 0 => resp'.count = 1]_vars

\* the (Threshold - 1)-th call after the flag ran out, answered false at
\* count Threshold - 1
C29_Witness ==
  /\ resp.op = "RecordAccess" /\ ~resp.result
  /\ resp.count = Threshold - 1
  /\ hist.markedAt[resp.key] >= 0
  /\ hist.afterExpiry[resp.key] = Threshold - 1

\* C28: while a key's hot flag is live no RecordAccess call changes it, calls
\* that overlap the call that set the flag included.
C28_LiveFlagUntouched ==
  [][\A p \in Procs :
       (RAMark(p) /\ IsHotKey(hotKeys, requests[p].key, now))
         => hotKeys'[requests[p].key] = hotKeys[requests[p].key]]_vars

\* C30: ClearHotKey leaves the key without a live flag whatever the flag's
\* remaining lifetime, and leaves the other keys' flags, the counter records,
\* the buckets, the fallback cache and the store as they were; and an access
\* to a key without flag whose live count is >= Threshold - 1 sets the flag.
C30_ClearOnlyUnmarks ==
  [][\A k \in RequestKeys :
       /\ CallClearHotKey(k)
            => /\ ~IsHotKey(hotKeys', k, now)
               /\ \A j \in Keys \ {k} : hotKeys'[j] = hotKeys[j]
               /\ counterCache' = counterCache
               /\ limiters' = limiters
               /\ localCache' = localCache
               /\ redis' = redis
       /\ \A fail \in BOOLEAN :
            (/\ GetKeyWith(k, fail)
             /\ ~IsHotKey(hotKeys, k, now)
             /\ LiveRecord(k)
             /\ ParseDuration(counterCache[k].val) >= Threshold - 1)
              => /\ IsHotKey(hotKeys', k, now)
                 /\ resp'.isHot]_vars

\* a flag cleared while the key has a live count >= Threshold, a bucket and a
\* fallback entry
C30_Witness ==
  /\ resp.op = "ClearHotKey"
  /\ ~IsHotKey(hotKeys, resp.key, now)
  /\ LiveRecord(resp.key)
  /\ ParseDuration(counterCache[resp.key].val) >= Threshold
  /\ limiters[resp.key].present
  /\ LocalCacheGet(localCache, resp.key, "", now).found


\* C21: after any sequence of MarkDown, MarkUp and Next calls, Next returns an
\* index in [0, slaveCount) of a replica marked up, and -1 if and only if every
\* replica is marked down.
C21_NextFindsUpReplica ==
  route.op = "Next" =>
    /\ route.index \in -1..(SlaveCount - 1)
    /\ route.index >= 0 => status[route.index]
    /\ route.index = -1 <=> \A i \in Slaves : ~status[i]

\* the half of C21 the code keeps: a replica Next answers with is marked up
C21_NeverDownReplica ==
  route.op = "Next" /\ route.index # -1 =>
    route.index \in Slaves /\ status[route.index]

\* Next answered -1 with a replica marked up
C21_MissedReplica ==
  /\ route.op = "Next"
  /\ route.index = -1
  /\ \E i \in Slaves : status[i]


\* the replicas a command was executed on
Tried == {route.tried[j] : j \in 1..Len(route.tried)}

\* C22: Process runs every write command and every command its table does not
\* know on the master, executing it on no replica and leaving the balancer
\* alone, whatever the replicas' marks; only a read can run on a replica.
C22_WritesAndUnknownOnMaster ==
  route.op = "Process" =>
    /\ route.cmd \notin ReadCommands =>
          /\ route.target = "master"
          /\ route.tried = <<>>
          /\ status = route.pre
          /\ counter = route.counter
    /\ route.tried # <<>> => route.cmd \in ReadCommands

\* a command the table does not know ran on the master with a replica marked up
C22_Witness ==
  /\ route.op = "Process"
  /\ route.cmd \notin WriteCommands \cup ReadCommands
  /\ route.target = "master"
  /\ \E i \in Slaves : route.pre[i] /\ i \notin route.failing

\* a write ran on the master with a replica marked up
C22_WitnessWrite ==
  /\ route.op = "Process"
  /\ route.cmd \in WriteCommands
  /\ route.target = "master"
  /\ \E i \in Slaves : route.pre[i] /\ i \notin route.failing

C23_WitnessRetry ==
  /\ route.op = "Process"
  /\ route.target = "slave"
  /\ Len(route.tried) = 2
  /\ ~status[route.tried[1]]


\* C24: Get asks the local level first and calls Redis exactly when the local
\* level answers ErrKeyNotFound; any other local error is returned as it is.
\* After a Redis hit the local level holds the value under its default
\* expiration, and while the entry written back has neither expired nor been
\* deleted, a Get of the key succeeds without calling Redis.
C24_LocalFirstAndWriteBack ==
  mlResp.op = "Get" =>
    /\ mlResp.redisCalled <=> mlResp.localErr = "ErrKeyNotFound"
    /\ mlResp.localErr \notin {"nil", "ErrKeyNotFound"} =>
          mlResp.err = mlResp.localErr
    /\ mlResp.redisCalled /\ mlResp.err = "nil" =>
          mlLocal[mlResp.key] = [present |-> TRUE, val |-> mlResp.val,
                                 exp |-> mlResp.at + LocalDefaultExpiration]
    /\ mlResp.covered => ~mlResp.redisCalled /\ mlResp.err = "nil"

\* a Get answered locally, at a later time, from an entry a Get wrote back
C24_Witness ==
  /\ mlResp.op = "Get"
  /\ mlResp.covered
  /\ ~mlResp.redisCalled
  /\ mlResp.at > 0
  /\ mlResp.wbExp = mlLocal["a"].exp

\* a Get that hit Redis and wrote the value back
C24_WitnessWriteBack ==
  /\ mlResp.op = "Get"
  /\ mlResp.redisCalled
  /\ mlResp.err = "nil"
  /\ MLLive(mlLocal, "a", now)

\* a Get refused by the local level
C24_WitnessLocalError ==
  /\ mlResp.op = "Get"
  /\ mlResp.localErr = "ErrInvalidKey"
  /\ ~mlResp.redisCalled


\* C31: SetRateForKey(key, rate, burst) puts a new full bucket in the key's
\* place: of the Allow(key) calls that follow it with no time elapsed, the
\* first `burst` are granted and the next one is denied, whatever the old
\* bucket held; the buckets of the other keys stay as they were.
C31_SetRateFullBucket ==
  /\ [](\A k \in Keys :
          hist.setRun[k].at >= 0 =>
            hist.setRun[k].granted = Min(hist.setRun[k].calls, hist.setRun[k].burst))
  /\ [][resp'.op = "SetRateForKey" /\ hist'.setRun # hist.setRun =>
          /\ limiters'[resp'.key] =
                NewLimiter(limiters'[resp'.key].rate, hist'.setRun[resp'.key].burst, now)
          /\ \A k \in Keys \ {resp'.key} : limiters'[k] = limiters[k]]_vars

\* a bucket out of tokens was replaced, `burst` calls were granted and the
\* next one denied, while the other key has a bucket of its own
C31_Witness ==
  /\ resp.op = "Allow"
  /\ ~resp.result
  /\ hist.setRun[resp.key].wasEmpty
  /\ hist.setRun[resp.key].calls = hist.setRun[resp.key].burst + 1
  /\ hist.setRun[resp.key].granted = hist.setRun[resp.key].burst
  /\ \E k \in Keys \ {resp.key} : limiters[k].present


\* C32: the bulk reset drops every bucket, custom-rate and exhausted ones
\* included: after it no key has a bucket, and the first Allow(key) after it
\* creates a bucket at the default rate with full capacity, takes one token
\* from it and returns true, even if the key was denied just before the reset.
C32_ResetDropsEveryBucket ==
  /\ [][resp'.op = "cleanup" /\ hist'.reset # hist.reset =>
          \A k \in Keys : ~limiters'[k].present]_vars
  /\ [][\A k \in Keys :
          hist.reset[k].pending /\ ~hist'.reset[k].pending /\ resp'.op = "Allow" =>
            /\ ~limiters[k].present
            /\ resp'.key = k /\ resp'.result
            /\ limiters'[k] =
                  [NewLimiter(RatePerTick, BurstSize, now) EXCEPT
                     !.tokens = BurstSize * TokenScale - TokenScale]]_vars

\* a key denied just before the reset is granted by the first Allow after it
C32_Witness ==
  /\ resp.op = "Allow"
  /\ resp.result
  /\ ~hist.reset[resp.key].pending
  /\ hist.reset[resp.key].denied
  /\ hist.lastAllow[resp.key].at = now

\* the same for a key whose dropped bucket had a custom rate
C32_WitnessCustom ==
  /\ resp.op = "Allow"
  /\ resp.result
  /\ ~hist.reset[resp.key].pending
  /\ hist.reset[resp.key].custom
  /\ hist.reset[resp.key].denied


\* C33: concurrent callers of Allow on a key without a bucket get one bucket
\* between them: with no time elapsed and no reset, one bucket is created for
\* the key, every grant is a token taken from it, and at most BurstSize calls
\* are granted.  With resets running alongside, every bucket created for a
\* key beyond the first replaces one that a reset dropped.
C33_OneBucketPerKey ==
  \A k \in Keys :
    /\ hist.resets = 0 =>
          /\ hist.created[k] <= 1
          /\ hist.allowed[k] <= BurstSize
          /\ limiters[k].present <=> hist.created[k] = 1
          /\ limiters[k].present =>
                limiters[k].tokens = (BurstSize - hist.allowed[k]) * TokenScale
    /\ hist.created[k] <= hist.resets + 1
    /\ limiters[k].present =>
          limiters[k].tokens = (BurstSize - hist.allowed[k]) * TokenScale

\* two callers found no bucket, one made it, the other found it on looking
\* again; BurstSize calls were granted and one was denied
C33_Witness ==
  /\ hist.resets = 0
  /\ hist.raced
  /\ resp.op = "Allow"
  /\ ~resp.result
  /\ hist.allowed[resp.key] = BurstSize
  /\ hist.created[resp.key] = 1

\* a caller debited a bucket that a reset had dropped from the map
C33_WitnessReset ==
  /\ hist.resets > 0
  /\ \E k \in Keys : orphans[k] # <<>> /\ orphans[k][1].tokens < BurstSize * TokenScale
  /\ \E k \in Keys : limiters[k].present


\* C34: while a key is hot, with no reset and no SetRateForKey, the store
\* Gets made for it by reads within T seconds number at most
\* BurstSize + rate * T, however the readers interleave.  No time passes
\* here, so T = 0 and the bound is BurstSize.
C34_StoreGetsBounded ==
  \A k \in Keys : hist.hotGets[k] <= BurstSize

\* the reads that found the key hot made BurstSize store Gets, and a read
\* that had found it cold made one more while it was hot
C34_OneTooMany ==
  \E k \in Keys :
    /\ hist.hotGets[k] = BurstSize + 1
    /\ limiters[k].present
    /\ limiters[k].tokens = 0


\* a write of v to k during which the store's Set, if called, fails or not
SetKeyWith(k, v, fail) ==
  /\ Commit(handleSetKey(k, v, Components, fail, now))
  /\ UNCHANGED <<others, conc, now, hist>>

\* C35: a write whose store Set fails answers 500 with an error and leaves
\* the fallback cache (and the store) as it was, for hot and cold keys alike;
\* a write of an empty value answers 400 with an error and calls neither the
\* store nor the fallback cache.
C35_FailedWriteLeavesCache ==
  [][\A k \in RequestKeys :
       /\ \A v \in Values :
            SetKeyWith(k, v, TRUE)
              => /\ resp'.status = StatusInternalServerError
                 /\ resp'.error # ""
                 /\ resp'.calls = <<"redisClient.Set">>
                 /\ localCache' = localCache
                 /\ redis' = redis
       /\ \A fail \in BOOLEAN :
            SetKeyWith(k, "", fail)
              => /\ resp'.status = StatusBadRequest
                 /\ resp'.error # ""
                 /\ resp'.calls = <<>>
                 /\ localCache' = localCache
                 /\ redis' = redis]_vars

\* a failed write of another value to a hot key that has a live fallback entry
C35_Witness ==
  /\ resp.op = "set"
  /\ resp.status = StatusInternalServerError
  /\ IsHotKey(hotKeys, resp.key, now)
  /\ LocalCacheGet(localCache, resp.key, "", now).found
  /\ localCache[resp.key].val # resp.value

\* a rejected write of an empty value to a hot key
C35_WitnessEmpty ==
  /\ resp.op = "set"
  /\ resp.status = StatusBadRequest
  /\ resp.value = ""
  /\ IsHotKey(hotKeys, resp.key, now)

\* C36: a write is no access and is not throttled: whatever its outcome and
\* whether the key is hot or cold, it leaves the access counts with their
\* deadlines, the hot flags and the token buckets as they were, and calls
\* neither RecordAccess nor Allow.
C36_WriteIsNoAccess ==
  [][\A k \in RequestKeys, v \in Values \cup {""}, fail \in BOOLEAN :
       SetKeyWith(k, v, fail)
         => /\ counterCache' = counterCache
            /\ hotKeys' = hotKeys
            /\ limiters' = limiters
            /\ ~Has(resp'.calls, "hotKeyDet.RecordAccess")
            /\ ~Has(resp'.calls, "rateLimiter.Allow")]_vars

\* a successful write to a hot key whose bucket is out of tokens
C36_Witness ==
  /\ resp.op = "set"
  /\ resp.status = StatusOK
  /\ IsHotKey(hotKeys, resp.key, now)
  /\ limiters[resp.key].present
  /\ Advance(limiters[resp.key], now) < TokenScale

\* a successful write to a cold key that has a live access count
C36_WitnessCold ==
  /\ resp.op = "set"
  /\ resp.status = StatusOK
  /\ ~IsHotKey(hotKeys, resp.key, now)
  /\ LiveRecord(resp.key)


\* C37: with requests handled one at a time and the store written only by
\* writes, a read answered from the fallback cache returns the value of the
\* latest successful write to the key (the store keeps that value in its
\* record of the key, expired or not).
C37_CacheAnswersLatestWrite ==
  resp.op = "get" /\ resp.source = "local_cache" =>
    /\ redis[resp.key].present
    /\ resp.value = redis[resp.key].val

\* a read answered from the fallback cache with a value that a later,
\* successful write to the key has replaced in the store
C37_StaleAnswer ==
  /\ resp.op = "get"
  /\ resp.status = StatusOK
  /\ resp.source = "local_cache"
  /\ StoredValue(redis, resp.key, now) # ""
  /\ StoredValue(redis, resp.key, now) # resp.value


\* C38: for a key that is hot, however reads and writes of it interleave,
\* once no request is in flight a live fallback entry holds the value the
\* store holds.  (No time passes here, so a key once hot stays hot; a key
\* marked hot while a write of it was in flight is left out.)
C38_CacheMatchesStore ==
  (\A p \in Procs : At(p, "idle")) =>
    \A k \in Keys :
      (/\ IsHotKey(hotKeys, k, now)
       /\ ~hist.crossed[k]
       /\ LocalCacheGet(localCache, k, "", now).found)
        => localCache[k].val = StoredValue(redis, k, now)

\* no request in flight, the key hot since before every write that ran
\* beside another request, and its fallback entry holding a value that the
\* store no longer holds
C38_StaleEntry ==
  /\ \A p \in Procs : At(p, "idle")
  /\ \E k \in Keys :
       /\ IsHotKey(hotKeys, k, now)
       /\ ~hist.crossed[k]
       /\ LocalCacheGet(localCache, k, "", now).found
       /\ StoredValue(redis, k, now) # ""
       /\ localCache[k].val # StoredValue(redis, k, now)

\* a read was answered by replica i
Served(i) ==
  route.op = "Process" /\ route.target = "slave" /\ route.index = i

\* C39: a replica marked down is not chosen until it is marked up, the first
\* health-check round in which its ping succeeds marks it up, and with the
\* ticker running a replica that answers from some moment on serves reads
\* again (and again, as reads keep arriving).  This is the last part; the
\* first two are C39_DownNeverChosen.
C39_ReachableServesAgain ==
  \A i \in Slaves : <>[](health[i] = "up") => []<>Served(i)

\* the parts of C39 that do not depend on how the other replicas fail: a
\* command is only tried on replicas that were up when it arrived, and a
\* round marks up every replica whose ping succeeded
C39_DownNeverChosen ==
  /\ route.op = "Process" =>
       \A n \in 1..Len(route.tried) : route.pre[route.tried[n]]
  /\ route.op = "HealthCheck" =>
       \A i \in Slaves : i \notin route.failing => status[i]

\* as long as no replica hangs, a replica that answers from some moment on
\* serves reads again
C39_ServesAgainUnlessOneHangs ==
  \A i \in Slaves :
    [](\A j \in Slaves : health[j] # "hanging")
      => (<>[](health[i] = "up") => []<>Served(i))

\* after a health-check round a replica that answers is marked down, behind
\* one that hangs
C39_MarkedDownBehindHanging ==
  /\ route.op = "HealthCheck"
  /\ \E i, j \in Slaves :
       j < i /\ health[j] = "hanging" /\ health[i] = "up" /\ ~status[i]


\* C40: once a Delete of the key has returned nil, a Get that starts before
\* the next Set returns ErrKeyNotFound, whatever Get calls were in flight
\* while the Delete ran.
C40_GetAfterDeleteNotFound ==
  mlResp.op = "Get" /\ mlResp.afterDelete => mlResp.err = "ErrKeyNotFound"

\* a Get that started after the Delete had returned, with no Set since,
\* returned the deleted value
C40_DeletedValueReturned ==
  mlResp.op = "Get" /\ mlResp.afterDelete /\ mlResp.err = "nil"
    /\ mlResp.val = "v1"

=========================================================================
